---- MODULE Spec2Model ----
(***************************************************************************)
(* State-machine model of the dealership data engine                       *)
(* (auto_mcp/data/store.py, auto_mcp/escalation/detector.py and            *)
(* auto_mcp/escalation/store.py).                                          *)
(*                                                                         *)
(* Time is the wall clock in whole days.  Scores are kept in hundredths    *)
(* (the code rounds to two decimals), so 10.0 is 1000 and 22.0 is 2200.    *)
(* uuid4 identifiers are fresh integers: the n-th profile is n.            *)
(* The empty string of a lead id is 0; the empty timestamp '' is NoTime.   *)
(***************************************************************************)
EXTENDS Integers, Sequences, FiniteSets, TLC

VARIABLES
    now,            \* datetime.now(timezone.utc), in days
    vehicles,       \* table vehicles: id -> row
    lead_profiles,  \* table lead_profiles: id -> row
    leads,          \* table leads (lead events), in insertion order
    sales,          \* table sales, in insertion order
    escalations,    \* table escalations, in insertion order
    escalation_store, \* SqliteVehicleStore._escalation_store is not None
    callbacks,      \* detector._callbacks, in registration order
    reservations,   \* journey._reservations, in insertion order
    journey_lock,   \* owner of journey._lock (NoThread when free)
    result,         \* the last completed call: operation, arguments, outcome
    lock,           \* owner of SqliteVehicleStore._lock (NoThread when free)
    pc,             \* per thread: position inside its current call
    frame           \* per thread: arguments and locals of its current call

vars == <<now, vehicles, lead_profiles, leads, sales, escalations,
          escalation_store, callbacks, reservations, journey_lock, result,
          lock, pc, frame>>

tables == <<vehicles, lead_profiles, leads, sales, escalations>>

\* The columns and call-record fields the model keeps, in the order every
\* record below is written in.
Columns ==
    [ action |-> "leads", args |-> "call", availability_status |-> "vehicles",
      created_at |-> "leads", customer_contact |-> "lead_profiles",
      customer_id |-> "lead_profiles", customer_name |-> "lead_profiles",
      delivered |-> "escalations", escalation_type |-> "escalations",
      existing_status |-> "local", expires_at |-> "vehicles",
      features |-> "vehicles", first_seen_at |-> "lead_profiles",
      hold_hours |-> "call", hold_until |-> "reservations", id |-> "vehicles",
      ingested_at |-> "vehicles", invoked |-> "call", keep_vehicle_record |-> "call",
      last_activity_at |-> "lead_profiles", last_vehicle_id |-> "lead_profiles",
      last_verified |-> "vehicles", latitude |-> "vehicles",
      lead_count |-> "vehicles", lead_id |-> "leads", listed_price |-> "sales",
      logged |-> "call",
      new_status |-> "escalations", next_status |-> "local",
      now_iso |-> "local", old_status |-> "escalations", op |-> "call",
      price |-> "vehicles", price_max |-> "call", price_min |-> "call",
      raised |-> "call", recorded_at |-> "sales", resolved |-> "local",
      ret |-> "call", row |-> "call", score |-> "lead_profiles",
      session_id |-> "lead_profiles", sold_at |-> "sales",
      sold_price |-> "sales", status |-> "lead_profiles", table |-> "local",
      ttl_days |-> "vehicles", vehicle |-> "local", vehicle_id |-> "leads",
      vin |-> "vehicles" ]

---------------------------------------------------------------------------
(* Bounds of the model                                                     *)

MaxNow == 34
MaxLeads == 4
MaxProfiles == 3
MaxSales == 2
DecayHorizon == 9
IdentityMaxLeads == 3
InventoryHorizon == 8
ThreadMaxLeads == 3
SalesMaxLeads == 2
SalesMaxSales == 1
MaxCallbacks == 2
MaxReservations == 2
HoldHorizon == 2
MergeMaxLeads == 3
JumpMaxLeads == 3
JumpHorizon == 16
HistoryMaxLeads == 2
HistoryHorizon == 8
CallbackMaxLeads == 3

---------------------------------------------------------------------------
(* Program constants                                                       *)

DEFAULT_TTL_DAYS == 7
ARCHIVED_SOLD_STATUS == "archived_sold"
ARCHIVED_REMOVED_STATUS == "archived_removed"
SOLD_STATUS == "sold"
ARCHIVED_STATUSES == {ARCHIVED_SOLD_STATUS, ARCHIVED_REMOVED_STATUS}
HIDDEN_FROM_CUSTOMER_SEARCH_STATUSES ==
    {SOLD_STATUS, ARCHIVED_SOLD_STATUS, ARCHIVED_REMOVED_STATUS}

ScoreScale == 100
ScoringWindowDays == 30
EngagedThreshold == 10
QualifiedThreshold == 22

NoTime == -1
NoValue == -1
NoLead == 0
NoThread == "none"
Absent == "<absent>"

VehicleIds == {"v1", "v2"}
Threads == {"t1", "t2"}

\* LEAD_SCORE_WEIGHTS.get(action, 0.0)
LEAD_SCORE_WEIGHTS(action) ==
    CASE action = "viewed" -> 1
      [] action = "compared" -> 3
      [] action = "financed" -> 6
      [] action = "availability_check" -> 5
      [] action = "test_drive" -> 8
      [] action = "reserve_vehicle" -> 9
      [] action = "contact_dealer" -> 4
      [] action = "purchase_deposit" -> 10
      [] OTHER -> 0

\* Mutation: the bands are reversed, older events count for more
RecencyMultiplier_Rising(age_days) ==
    CASE age_days <= 1 -> 30
      [] age_days <= 3 -> 50
      [] age_days <= 7 -> 70
      [] age_days <= 14 -> 100
      [] OTHER -> 0

\* recency_multiplier(age_days, AUTO_SCORING_CONFIG), in hundredths:
\* the first band (max_days, multiplier) with age_days <= max_days,
\* recency_default (0.0) past the last band.
RecencyMultiplier(age_days) ==
    CASE age_days <= 1 -> 100
      [] age_days <= 3 -> 85
      [] age_days <= 7 -> 70
      [] age_days <= 14 -> 50
      [] age_days <= 30 -> 30
      [] OTHER -> 0

\* ESCALATION_TRANSITIONS.get((old_status, new_status))
ESCALATION_TRANSITIONS(old_status, new_status) ==
    CASE old_status = "new" /\ new_status = "engaged" -> "cold_to_warm"
      [] old_status = "new" /\ new_status = "qualified" -> "cold_to_hot"
      [] old_status = "engaged" /\ new_status = "qualified" -> "warm_to_hot"
      [] OTHER -> Absent

---------------------------------------------------------------------------
(* Text normalisation over the strings the model uses                      *)

\* str.strip()
Strip(s) ==
    CASE s = " c1 " -> "c1"
      [] s = " s1 " -> "s1"
      [] s = " A@X " -> "A@X"
      [] s = "   " -> ""
      [] OTHER -> s

\* str.lower()
Lower(s) ==
    CASE s = "A@X" -> "a@x"
      [] s = "B@X" -> "b@x"
      [] OTHER -> s

\* str.upper(), on VINs
Upper(s) ==
    CASE s = "vina" -> "VINA"
      [] s = "vinb" -> "VINB"
      [] OTHER -> s

\* customer_contact.strip().lower()
NormalizeContact(s) == Lower(Strip(s))

Max(a, b) == IF a >= b THEN a ELSE b

Range(f) == {f[i] : i \in DOMAIN f}

---------------------------------------------------------------------------
(* Vehicle rows                                                            *)

\* ids in the order of ORDER BY id
IdOrder == <<"v1", "v2">>

\* SqliteVehicleStore._vehicle_to_row: the stored row of an upsert payload.
\* A payload field that is missing is Absent (text), NoValue (numbers) or
\* NoTime (timestamps).
VehicleToRow(vehicle, now_iso) ==
    LET ttl_days == IF vehicle.ttl_days = NoValue THEN DEFAULT_TTL_DAYS
                    ELSE Max(0, vehicle.ttl_days)
    IN  [ availability_status |->
              IF vehicle.availability_status = Absent THEN "in_stock"
              ELSE vehicle.availability_status,
          expires_at |->
              IF vehicle.expires_at = NoTime THEN now_iso + ttl_days
              ELSE vehicle.expires_at,
          ingested_at |->
              IF vehicle.ingested_at = NoTime THEN now_iso ELSE vehicle.ingested_at,
          last_verified |->
              IF vehicle.last_verified = NoTime THEN now_iso ELSE vehicle.last_verified,
          latitude |-> vehicle.latitude,
          lead_count |-> IF vehicle.lead_count = NoValue THEN 0 ELSE vehicle.lead_count,
          price |-> vehicle.price,
          vin |-> Upper(vehicle.vin) ]

\* Mutation: a conflicting upsert adds the payload's price to the stored one
UpsertRow_Adding(table, id, row) ==
    [v \in (DOMAIN table) \cup {id} |->
        IF v # id THEN table[v]
        ELSE IF id \in DOMAIN table
             THEN [row EXCEPT !.price = table[id].price + row.price]
             ELSE row]

\* UPSERT_SQL: INSERT ... ON CONFLICT(id) DO UPDATE SET every column = excluded
UpsertRow(table, id, row) ==
    [v \in (DOMAIN table) \cup {id} |-> IF v = id THEN row ELSE table[v]]

\* Mutation: the visibility clause excludes nothing
ActiveInventoryClause_All(status, include_sold) == TRUE

\* SqliteVehicleStore._active_inventory_clause: availability_status NOT IN (...)
ActiveInventoryClause(status, include_sold) ==
    status \notin (IF include_sold THEN ARCHIVED_STATUSES
                   ELSE HIDDEN_FROM_CUSTOMER_SEARCH_STATUSES)

\* The public dict of a stored row (_row_to_dict), with its id
PublicRow(table, id) == [id |-> id, row |-> table[id]]

\* Mutation: get hides sold vehicles as well, as search does
Get_HidingSold(table, vehicle_id) ==
    IF vehicle_id \in DOMAIN table
       /\ table[vehicle_id].availability_status \notin ARCHIVED_STATUSES
       /\ table[vehicle_id].availability_status # SOLD_STATUS
    THEN {PublicRow(table, vehicle_id)}
    ELSE {}

\* SqliteVehicleStore.get: the set holding the row returned, {} for None
Get(table, vehicle_id) ==
    IF vehicle_id \in DOMAIN table
       /\ table[vehicle_id].availability_status \notin ARCHIVED_STATUSES
    THEN {PublicRow(table, vehicle_id)}
    ELSE {}

\* SqliteVehicleStore.get_many: input order, missing ids skipped
GetMany(table, vehicle_ids) ==
    LET found(vid) == Get(table, vid) # {}
        RECURSIVE Collect(_)
        Collect(ids) ==
            IF ids = <<>> THEN <<>>
            ELSE (IF found(Head(ids)) THEN <<PublicRow(table, Head(ids))>> ELSE <<>>)
                 \o Collect(Tail(ids))
    IN  Collect(vehicle_ids)

\* SqliteVehicleStore.get_by_vin: vin = ? COLLATE NOCASE with vin.upper();
\* fetchone() of several matching rows is any one of them.  The set of
\* rows it can return; {} when the answer is None.
GetByVin(table, vin) ==
    LET hits == {id \in DOMAIN table :
                    /\ Upper(table[id].vin) = Upper(vin)
                    /\ table[id].availability_status \notin ARCHIVED_STATUSES}
    IN  {PublicRow(table, id) : id \in hits}

\* SqliteVehicleStore._build_filters, for the modelled columns: the filters
\* given (not NoValue) are ANDed.
BuildFilters(row, filters) ==
    /\ filters.price_min = NoValue \/ row.price >= filters.price_min
    /\ filters.price_max = NoValue \/ row.price <= filters.price_max

\* ids of the rows a filtered, visibility-restricted SELECT ... ORDER BY id returns
SelectIds(table, filters, include_sold) ==
    SelectSeq(IdOrder, LAMBDA id :
        /\ id \in DOMAIN table
        /\ BuildFilters(table[id], filters)
        /\ ActiveInventoryClause(table[id].availability_status, include_sold))

\* SqliteVehicleStore.search
Search(table, filters, include_sold) ==
    LET ids == SelectIds(table, filters, include_sold)
    IN  [i \in 1..Len(ids) |-> PublicRow(table, ids[i])]

\* SqliteVehicleStore.count_filtered
CountFiltered(table, filters, include_sold) ==
    Len(SelectIds(table, filters, include_sold))

\* SqliteVehicleStore.search_page: ORDER BY id LIMIT ? OFFSET ?
SearchPage(table, filters, limit, offset, include_sold) ==
    IF limit <= 0 THEN <<>>
    ELSE LET ids == SelectIds(table, filters, include_sold)
             last == IF offset + limit < Len(ids) THEN offset + limit ELSE Len(ids)
         IN  [i \in 1..(IF last > offset THEN last - offset ELSE 0) |->
                 PublicRow(table, ids[offset + i])]

\* SqliteVehicleStore.count
Count(table) ==
    Cardinality({id \in DOMAIN table :
        ActiveInventoryClause(table[id].availability_status, FALSE)})

\* SqliteVehicleStore.search_by_location for dealers on one meridian:
\* latitude is the position in whole miles (NULL is NoValue), the distance
\* is the difference of positions, rows beyond radius_miles are dropped.
\* The set of rows returned (before the sort by distance and price).
SearchByLocation(table, center_lat, radius_miles, filters, include_sold) ==
    LET dist(id) == IF table[id].latitude >= center_lat
                    THEN table[id].latitude - center_lat
                    ELSE center_lat - table[id].latitude
    IN  {PublicRow(table, id) : id \in {v \in DOMAIN table :
            /\ table[v].latitude # NoValue
            /\ BuildFilters(table[v], filters)
            /\ ActiveInventoryClause(table[v].availability_status, include_sold)
            /\ dist(v) <= radius_miles}}

---------------------------------------------------------------------------
(* Lead engine: identity resolution, scoring, status                       *)

\* ORDER BY last_activity_at DESC LIMIT 1 over the rows in ids: the rows
\* the query can return (any of those with the greatest last_activity_at)
MostRecent(profiles, ids) ==
    {p \in ids : \A q \in ids :
        profiles[q].last_activity_at <= profiles[p].last_activity_at}

\* Mutation: a supplied lead id that names a stored profile is trusted
\* without comparing any identity signal
LookupLeadProfileId_Trusting(profiles, lead_id, customer_id, customer_contact, session_id) ==
    IF lead_id # NoLead /\ lead_id \in DOMAIN profiles THEN {lead_id} ELSE {NoLead}

\* SqliteVehicleStore._lookup_lead_profile_id: the ids it can return,
\* {NoLead} for None.
LookupLeadProfileId(profiles, lead_id, customer_id, customer_contact, session_id) ==
    LET normalized_customer_id == Strip(customer_id)
        normalized_contact == NormalizeContact(customer_contact)
        normalized_session_id == Strip(session_id)
        verified ==
            /\ lead_id # NoLead
            /\ lead_id \in DOMAIN profiles
            /\ \/ /\ normalized_customer_id # ""
                  /\ normalized_customer_id = profiles[lead_id].customer_id
               \/ /\ normalized_contact # ""
                  /\ normalized_contact = profiles[lead_id].customer_contact
               \/ /\ normalized_session_id # ""
                  /\ normalized_session_id = profiles[lead_id].session_id
        by_customer == {p \in DOMAIN profiles :
                           profiles[p].customer_id = normalized_customer_id}
        by_contact == {p \in DOMAIN profiles :
                          profiles[p].customer_contact = normalized_contact}
        by_session == {p \in DOMAIN profiles :
                          profiles[p].session_id = normalized_session_id}
    IN  IF verified THEN {lead_id}
        ELSE IF normalized_customer_id # "" /\ by_customer # {}
             THEN MostRecent(profiles, by_customer)
        ELSE IF normalized_contact # "" /\ by_contact # {}
             THEN MostRecent(profiles, by_contact)
        ELSE IF normalized_session_id # "" /\ by_session # {}
             THEN MostRecent(profiles, by_session)
        ELSE {NoLead}

\* x or y, on strings
OrElse(x, y) == IF x # "" THEN x ELSE y

\* SqliteVehicleStore._resolve_or_create_lead_profile after the lookup has
\* returned `resolved`: the lead_profiles table it leaves.  `fresh` is the
\* new uuid.
ResolveOrCreateLeadProfile(profiles, resolved, fresh, vehicle_id, now_iso, customer_id, session_id, customer_name, customer_contact) ==
    LET normalized_customer_id == Strip(customer_id)
        normalized_session_id == Strip(session_id)
        normalized_name == Strip(customer_name)
        normalized_contact == NormalizeContact(customer_contact)
    IN  IF resolved = NoLead
        THEN [p \in (DOMAIN profiles) \cup {fresh} |->
                IF p = fresh
                THEN [ customer_contact |-> normalized_contact,
                       customer_id |-> normalized_customer_id,
                       customer_name |-> normalized_name,
                       first_seen_at |-> now_iso,
                       last_activity_at |-> now_iso,
                       last_vehicle_id |-> vehicle_id,
                       score |-> 0,
                       session_id |-> normalized_session_id,
                       status |-> "new" ]
                ELSE profiles[p]]
        ELSE IF resolved \notin DOMAIN profiles
        THEN profiles
        ELSE LET existing == profiles[resolved]
             IN  [profiles EXCEPT ![resolved] =
                    [ existing EXCEPT
                        !.customer_id = OrElse(normalized_customer_id, existing.customer_id),
                        !.session_id = OrElse(normalized_session_id, existing.session_id),
                        !.customer_name = OrElse(normalized_name, existing.customer_name),
                        !.customer_contact = OrElse(normalized_contact, existing.customer_contact),
                        !.last_activity_at = now_iso,
                        !.last_vehicle_id = vehicle_id ]]

\* uuid4 for a new profile: an id no profile has
FreshProfileId(profiles) == Cardinality(DOMAIN profiles) + 1

\* Mutation: the new event is weighted by its weight alone and the earlier
\* events are weighted as if each were thirty days older
EventScore_Aged(event, now_dt) ==
    LET weight == LEAD_SCORE_WEIGHTS(event.action)
        age_days == Max(0, now_dt - event.created_at)
    IN  IF weight <= 0 THEN 0
        ELSE IF age_days = 0 THEN weight * RecencyMultiplier(0)
        ELSE 0

\* The contribution of one lead event to the score at now_dt, in hundredths
EventScore(event, now_dt) ==
    LET weight == LEAD_SCORE_WEIGHTS(event.action)
        age_days == Max(0, now_dt - event.created_at)
    IN  IF weight <= 0 THEN 0 ELSE weight * RecencyMultiplier(age_days)

\* Mutation: only the newest event of the lead is scored
ComputeLeadScore_LastOnly(events, lead_id, now_dt) ==
    IF events # <<>> /\ events[Len(events)].lead_id = lead_id
    THEN EventScore(events[Len(events)], now_dt)
    ELSE 0

\* SqliteVehicleStore._compute_lead_score, in hundredths: the events of
\* lead_id with created_at > now_dt - days
ComputeLeadScore(events, lead_id, now_dt) ==
    LET since == now_dt - ScoringWindowDays
        RECURSIVE Sum(_)
        Sum(i) ==
            IF i = 0 THEN 0
            ELSE Sum(i - 1)
                 + (IF events[i].lead_id = lead_id /\ events[i].created_at > since
                    THEN EventScore(events[i], now_dt) ELSE 0)
    IN  Sum(Len(events))

\* Mutation: the terminal statuses are not frozen
NextStatus_NoFreeze(existing_status, score) ==
    IF score >= QualifiedThreshold * ScoreScale THEN "qualified"
    ELSE IF score >= EngagedThreshold * ScoreScale THEN "engaged"
    ELSE "new"

\* record_lead: the status stored for a recomputed score
NextStatus(existing_status, score) ==
    IF existing_status \in {"won", "lost"} THEN existing_status
    ELSE IF score >= QualifiedThreshold * ScoreScale THEN "qualified"
    ELSE IF score >= EngagedThreshold * ScoreScale THEN "engaged"
    ELSE "new"

\* SqliteVehicleStore._insert_lead_event
InsertLeadEvent(events, vehicle_id, action, created_at, lead_id) ==
    Append(events, [ action |-> action, created_at |-> created_at,
                     lead_id |-> lead_id, vehicle_id |-> vehicle_id ])

\* The default window of get_lead_detail, in days
LeadDetailDays == 90

\* SqliteVehicleStore.get_lead_detail: None (the empty set) without a
\* profile row, else the profile with the lead's events of the last 90 days
GetLeadDetail(profiles, events, lead_id, now_dt) ==
    IF lead_id \notin DOMAIN profiles
    THEN {}
    ELSE {[ events |-> SelectSeq(events, LAMBDA e :
                          e.lead_id = lead_id /\ e.created_at > now_dt - LeadDetailDays),
            profile |-> profiles[lead_id] ]}

---------------------------------------------------------------------------
(* Escalations                                                             *)

\* check_escalation: the escalation type of a transition, Absent for None
CheckEscalation(old_status, new_status) ==
    IF old_status = new_status THEN Absent
    ELSE ESCALATION_TRANSITIONS(old_status, new_status)

\* Mutation: delivered rows count as active too, and no row is ever found
HasActiveEscalation_Never(rows, lead_id, escalation_type) ==
    \E i \in DOMAIN rows :
        /\ rows[i].lead_id = lead_id
        /\ rows[i].escalation_type = escalation_type
        /\ rows[i].delivered = 2

\* EscalationStore.has_active_escalation
HasActiveEscalation(rows, lead_id, escalation_type) ==
    \E i \in DOMAIN rows :
        /\ rows[i].lead_id = lead_id
        /\ rows[i].escalation_type = escalation_type
        /\ rows[i].delivered = 0

\* EscalationStore.save of a record with a new id
SaveEscalation(rows, lead_id, escalation_type, old_status, new_status, score) ==
    Append(rows, [ delivered |-> 0, escalation_type |-> escalation_type,
                   lead_id |-> lead_id, new_status |-> new_status,
                   old_status |-> old_status, score |-> score ])

\* The registered callbacks: one that records the escalation it is given
\* and one that raises an Exception
Capture == "capture"
Boom == "boom"

\* Mutation: the first callback that raises ends the loop and its exception
\* leaves check_escalation
InvokeCallbacks_Propagate(registry) ==
    LET booms == {i \in 1..Len(registry) : registry[i] = Boom}
        first == CHOOSE i \in booms : \A j \in booms : i <= j
    IN  IF booms = {}
        THEN [ invoked |-> [i \in 1..Len(registry) |-> i], logged |-> {},
               raised |-> FALSE ]
        ELSE [ invoked |-> [i \in 1..first |-> i], logged |-> {},
               raised |-> TRUE ]

\* check_escalation: the loop over _callbacks.  Each callback is called in
\* registration order inside try/except Exception; a raising one is logged
\* ("Escalation callback failed") and the loop goes on.
InvokeCallbacks(registry) ==
    [ invoked |-> [i \in 1..Len(registry) |-> i],
      logged |-> {i \in 1..Len(registry) : registry[i] = Boom},
      raised |-> FALSE ]

\* record_lead, after the commit: check_escalation is called, and with it
\* the callbacks, when the escalation store is attached and the transition
\* is one of ESCALATION_TRANSITIONS
NotifyCallbacks(registry, enabled, existing_status, next_status) ==
    IF enabled /\ CheckEscalation(existing_status, next_status) # Absent
    THEN InvokeCallbacks(registry)
    ELSE [invoked |-> <<>>, logged |-> {}, raised |-> FALSE]

\* record_lead, after the commit: the escalations table it leaves
EscalateOnTransition(rows, enabled, lead_id, existing_status, next_status, score) ==
    LET esc == CheckEscalation(existing_status, next_status)
    IN  IF enabled /\ existing_status # next_status
           /\ esc # Absent /\ ~HasActiveEscalation(rows, lead_id, esc)
        THEN SaveEscalation(rows, lead_id, esc, existing_status, next_status, score)
        ELSE rows

---------------------------------------------------------------------------
(* Statements of record_lead and record_sale, as table transformers        *)

\* Mutation: the vehicle SELECT of record_lead does not look at the status
VehicleIsActive_Known(table, vehicle_id) == vehicle_id \in DOMAIN table

\* record_lead: SELECT ... FROM vehicles WHERE id = ? AND <active inventory>
VehicleIsActive(table, vehicle_id) ==
    /\ vehicle_id \in DOMAIN table
    /\ ActiveInventoryClause(table[vehicle_id].availability_status, FALSE)

\* Mutation: the counter is raised by two
BumpLeadCount_Twice(table, vehicle_id) ==
    IF vehicle_id \in DOMAIN table
    THEN [table EXCEPT ![vehicle_id].lead_count = @ + 2]
    ELSE table

\* record_lead: UPDATE vehicles SET lead_count = lead_count + 1 WHERE id = ?
BumpLeadCount(table, vehicle_id) ==
    IF vehicle_id \in DOMAIN table
    THEN [table EXCEPT ![vehicle_id].lead_count = @ + 1]
    ELSE table

\* record_lead: SELECT status FROM lead_profiles WHERE id = ? ("new" if no row)
ExistingStatus(profiles, lead_id) ==
    IF lead_id \in DOMAIN profiles THEN profiles[lead_id].status ELSE "new"

\* record_lead: UPDATE lead_profiles SET score, status, last_activity_at,
\* last_vehicle_id WHERE id = ?
UpdateLeadProfile(profiles, lead_id, score, status, now_iso, vehicle_id) ==
    IF lead_id \in DOMAIN profiles
    THEN [profiles EXCEPT ![lead_id] =
            [@ EXCEPT !.score = score, !.status = status,
                      !.last_activity_at = now_iso, !.last_vehicle_id = vehicle_id]]
    ELSE profiles

\* record_sale: UPDATE vehicles SET availability_status = ? [, expires_at = '']
\* WHERE id = ?
SetVehicleStatus_Delete(table, vehicle_id, status, clear_expiry) ==
    IF status \in ARCHIVED_STATUSES
    THEN [id \in DOMAIN table \ {vehicle_id} |-> table[id]]
    ELSE IF vehicle_id \in DOMAIN table
    THEN [table EXCEPT ![vehicle_id] =
            [@ EXCEPT !.availability_status = status,
                      !.expires_at = IF clear_expiry THEN NoTime ELSE @]]
    ELSE table

SetVehicleStatus(table, vehicle_id, status, clear_expiry) ==
    IF vehicle_id \in DOMAIN table
    THEN [table EXCEPT ![vehicle_id] =
            [@ EXCEPT !.availability_status = status,
                      !.expires_at = IF clear_expiry THEN NoTime ELSE @]]
    ELSE table

\* record_sale: UPDATE lead_profiles SET status = 'won', last_activity_at,
\* last_vehicle_id WHERE id = ?
MarkLeadWon(profiles, lead_id, now_iso, vehicle_id) ==
    IF lead_id # NoLead /\ lead_id \in DOMAIN profiles
    THEN [profiles EXCEPT ![lead_id] =
            [@ EXCEPT !.status = "won", !.last_activity_at = now_iso,
                      !.last_vehicle_id = vehicle_id]]
    ELSE profiles

\* record_sale: INSERT INTO sales; listed_price is the price of the vehicle
\* dict read by get()
InsertSale(rows, vehicle_id, lead_id, sold_price, listed_price, sold_at, now_iso) ==
    Append(rows, [ lead_id |-> lead_id, listed_price |-> listed_price,
                   recorded_at |-> now_iso, sold_at |-> sold_at,
                   sold_price |-> sold_price, vehicle_id |-> vehicle_id ])

\* Mutation: the row is left as sold whatever keep_vehicle_record says
SaleVehicleWrites_Sold(table, vehicle_id, keep_vehicle_record) ==
    SetVehicleStatus(table, vehicle_id, SOLD_STATUS, FALSE)

\* record_sale, the writes made under the lock, for the vehicle dict `vehicle`
\* read before: the vehicles table they leave
SaleVehicleWrites(table, vehicle_id, keep_vehicle_record) ==
    LET sold == SetVehicleStatus(table, vehicle_id, SOLD_STATUS, FALSE)
    IN  IF keep_vehicle_record THEN sold
        ELSE SetVehicleStatus(sold, vehicle_id, ARCHIVED_SOLD_STATUS, TRUE)

---------------------------------------------------------------------------
(* The store operations, one call at a time                                *)

\* SqliteVehicleStore.upsert
Upsert(vehicle) ==
    /\ vehicles' = UpsertRow(vehicles, vehicle.id, VehicleToRow(vehicle, now))
    /\ result' = [args |-> vehicle, op |-> "upsert"]
    /\ UNCHANGED <<now, lead_profiles, leads, sales, escalations,
                   escalation_store, reservations, journey_lock, callbacks, lock, pc, frame>>

\* The features value of a batch item: a list json.dumps accepts, or one it
\* raises TypeError on
Serializable == "list"
Unserializable == "list holding an object"

\* A vehicle dict of a batch: the modelled columns and its features value
BatchItem(vehicle, features) == [features |-> features, vehicle |-> vehicle]

\* executemany(UPSERT_SQL, rows): rows is a generator, so each row is built
\* and written in turn and the rows before a failing item have been written
\* when _vehicle_to_row raises.
RECURSIVE ExecuteMany(_, _, _)
ExecuteMany(table, vehicles_list, now_iso) ==
    IF vehicles_list = <<>> THEN [raised |-> FALSE, table |-> table]
    ELSE IF Head(vehicles_list).features = Unserializable
         THEN [raised |-> TRUE, table |-> table]
         ELSE ExecuteMany(UpsertRow(table, Head(vehicles_list).vehicle.id,
                                    VehicleToRow(Head(vehicles_list).vehicle, now_iso)),
                          Tail(vehicles_list), now_iso)

\* Mutation: the connection commits what was written when the block raises
ConnectionExit_Commit(before, outcome) == outcome.table

\* "with self._conn": commit when the block returns, rollback when it raises
ConnectionExit(before, outcome) ==
    IF outcome.raised THEN before ELSE outcome.table

\* SqliteVehicleStore.upsert_many.  Every other call commits before it
\* returns, so vehicles is the committed table when the batch starts.
UpsertMany(vehicles_list) ==
    LET outcome == ExecuteMany(vehicles, vehicles_list, now)
    IN  /\ vehicles' = IF vehicles_list = <<>> THEN vehicles
                       ELSE ConnectionExit(vehicles, outcome)
        /\ result' = [ args |-> vehicles_list, op |-> "upsert_many",
                       raised |-> outcome.raised ]
        /\ UNCHANGED <<now, lead_profiles, leads, sales, escalations,
                       escalation_store, reservations, journey_lock, callbacks, lock, pc, frame>>

\* _validate_vehicle_schema: TRUE when the item is rejected (of the required
\* fields only price varies here: it must be >= 0)
SchemaError(item) == item.vehicle.price < 0

\* _canonicalize_vehicle, on the modelled columns: the VIN is upper-cased
CanonicalizeVehicle(item) == [item EXCEPT !.vehicle.vin = Upper(@)]

\* bulk_upsert_vehicles_impl: every item is validated before upsert_many is
\* called; the first schema error is returned and nothing is written.
BulkUpsertVehiclesImpl(vehicles_list) ==
    LET rejected == \E i \in 1..Len(vehicles_list) : SchemaError(vehicles_list[i])
        validated_vehicles ==
            [i \in 1..Len(vehicles_list) |-> CanonicalizeVehicle(vehicles_list[i])]
        outcome == ExecuteMany(vehicles, validated_vehicles, now)
    IN  /\ vehicles' = IF rejected \/ validated_vehicles = <<>> THEN vehicles
                       ELSE ConnectionExit(vehicles, outcome)
        /\ result' = [ args |-> vehicles_list, op |-> "bulk_upsert_vehicles",
                       raised |-> ~rejected /\ outcome.raised,
                       ret |-> IF rejected THEN "Error" ELSE "upserted" ]
        /\ UNCHANGED <<now, lead_profiles, leads, sales, escalations,
                       escalation_store, reservations, journey_lock, callbacks, lock, pc, frame>>

\* SqliteVehicleStore.remove
Remove(vehicle_id) ==
    LET hit == /\ vehicle_id \in DOMAIN vehicles
               /\ vehicles[vehicle_id].availability_status \notin ARCHIVED_STATUSES
    IN  /\ vehicles' = IF hit
                       THEN SetVehicleStatus(vehicles, vehicle_id,
                                             ARCHIVED_REMOVED_STATUS, TRUE)
                       ELSE vehicles
        /\ result' = [args |-> vehicle_id, op |-> "remove", ret |-> hit]
        /\ UNCHANGED <<now, lead_profiles, leads, sales, escalations,
                       escalation_store, reservations, journey_lock, callbacks, lock, pc, frame>>

\* Mutation: the UPDATE of remove_expired also takes sold rows
ExpiredIds_Sold(table, now_iso) ==
    {id \in DOMAIN table :
        /\ ActiveInventoryClause(table[id].availability_status, TRUE)
        /\ table[id].expires_at # NoTime
        /\ table[id].expires_at < now_iso}

\* The rows remove_expired archives
ExpiredIds(table, now_iso) ==
    {id \in DOMAIN table :
        /\ ActiveInventoryClause(table[id].availability_status, FALSE)
        /\ table[id].expires_at # NoTime
        /\ table[id].expires_at < now_iso}

\* SqliteVehicleStore.remove_expired
RemoveExpired ==
    LET expired == ExpiredIds(vehicles, now)
    IN  /\ vehicles' = [id \in DOMAIN vehicles |->
                          IF id \in expired
                          THEN [vehicles[id] EXCEPT
                                   !.availability_status = ARCHIVED_REMOVED_STATUS,
                                   !.expires_at = NoTime]
                          ELSE vehicles[id]]
        /\ result' = [args |-> now, op |-> "remove_expired",
                      ret |-> Cardinality(expired)]
        /\ UNCHANGED <<now, lead_profiles, leads, sales, escalations,
                       escalation_store, reservations, journey_lock, callbacks, lock, pc, frame>>

\* SqliteVehicleStore.record_lead, the whole call
RecordLead(vehicle_id, action, lead_id, customer_id, session_id, customer_name, customer_contact) ==
    LET args == [ action |-> action, customer_contact |-> customer_contact,
                  customer_id |-> customer_id, customer_name |-> customer_name,
                  lead_id |-> lead_id, session_id |-> session_id,
                  vehicle_id |-> vehicle_id ]
    IN
    \/ /\ ~VehicleIsActive(vehicles, vehicle_id)
       /\ result' = [args |-> args, op |-> "record_lead", raised |-> TRUE,
                     ret |-> NoLead]
       /\ UNCHANGED <<now, vehicles, lead_profiles, leads, sales, escalations,
                      escalation_store, reservations, journey_lock, callbacks, lock, pc, frame>>
    \/ /\ VehicleIsActive(vehicles, vehicle_id)
       /\ Len(leads) < MaxLeads
       /\ \E resolved \in LookupLeadProfileId(lead_profiles, lead_id, customer_id,
                                              customer_contact, session_id) :
          LET fresh == FreshProfileId(lead_profiles)
              resolved_lead_id == IF resolved = NoLead THEN fresh ELSE resolved
              profiles1 == ResolveOrCreateLeadProfile(
                               lead_profiles, resolved, fresh, vehicle_id, now,
                               customer_id, session_id, customer_name,
                               customer_contact)
              leads1 == InsertLeadEvent(leads, vehicle_id, action, now,
                                        resolved_lead_id)
              score == ComputeLeadScore(leads1, resolved_lead_id, now)
              existing_status == ExistingStatus(profiles1, resolved_lead_id)
              next_status == NextStatus(existing_status, score)
          IN  /\ resolved = NoLead => Cardinality(DOMAIN lead_profiles) < MaxProfiles
              /\ vehicles' = BumpLeadCount(vehicles, vehicle_id)
              /\ leads' = leads1
              /\ lead_profiles' = UpdateLeadProfile(profiles1, resolved_lead_id,
                                                    score, next_status, now,
                                                    vehicle_id)
              /\ LET notified == NotifyCallbacks(callbacks, escalation_store,
                                                  existing_status, next_status)
                 IN  /\ escalations' =
                            IF notified.raised THEN escalations
                            ELSE EscalateOnTransition(
                                    escalations, escalation_store,
                                    resolved_lead_id, existing_status,
                                    next_status, score)
                     /\ result' = [args |-> args,
                                   existing_status |-> existing_status,
                                   invoked |-> notified.invoked,
                                   op |-> "record_lead",
                                   raised |-> notified.raised,
                                   ret |-> IF notified.raised THEN NoLead
                                           ELSE resolved_lead_id]
       /\ UNCHANGED <<now, sales, escalation_store, reservations, journey_lock, callbacks, lock, pc, frame>>

\* SqliteVehicleStore.record_lead called with an event_meta dict that
\* json.dumps raises TypeError on: the profile is resolved or created, then
\* _insert_lead_event raises while building its parameters.  record_lead has
\* no rollback, so the profile write stays in the connection's open
\* transaction, where every later read sees it and the next commit keeps it.
RecordLeadUnserializable(vehicle_id, action, lead_id, customer_id, session_id, customer_name, customer_contact) ==
    LET args == [ action |-> action, customer_contact |-> customer_contact,
                  customer_id |-> customer_id, customer_name |-> customer_name,
                  lead_id |-> lead_id, session_id |-> session_id,
                  vehicle_id |-> vehicle_id ]
    IN
    \/ /\ ~VehicleIsActive(vehicles, vehicle_id)
       /\ result' = [args |-> args, op |-> "record_lead", raised |-> TRUE,
                     ret |-> NoLead]
       /\ UNCHANGED <<now, vehicles, lead_profiles, leads, sales, escalations,
                      escalation_store, reservations, journey_lock, callbacks, lock, pc, frame>>
    \/ /\ VehicleIsActive(vehicles, vehicle_id)
       /\ \E resolved \in LookupLeadProfileId(lead_profiles, lead_id, customer_id,
                                              customer_contact, session_id) :
              /\ resolved = NoLead => Cardinality(DOMAIN lead_profiles) < MaxProfiles
              /\ lead_profiles' = ResolveOrCreateLeadProfile(
                                      lead_profiles, resolved,
                                      FreshProfileId(lead_profiles), vehicle_id, now,
                                      customer_id, session_id, customer_name,
                                      customer_contact)
       /\ result' = [args |-> args, op |-> "record_lead", raised |-> TRUE,
                     ret |-> NoLead]
       /\ UNCHANGED <<now, vehicles, leads, sales, escalations,
                      escalation_store, reservations, journey_lock, callbacks, lock, pc, frame>>

\* SqliteVehicleStore.record_sale, the whole call.  sold_at is a timestamp
\* or NoTime for a string that does not parse.
RecordSale(vehicle_id, sold_price, sold_at, lead_id, keep_vehicle_record) ==
    LET args == [ keep_vehicle_record |-> keep_vehicle_record,
                  lead_id |-> lead_id, sold_at |-> sold_at,
                  sold_price |-> sold_price, vehicle_id |-> vehicle_id ]
        vehicle == Get(vehicles, vehicle_id)
        rejected == sold_at = NoTime \/ vehicle = {} \/ sold_price < 0
    IN
    \/ /\ rejected
       /\ result' = [args |-> args, op |-> "record_sale", raised |-> TRUE]
       /\ UNCHANGED <<now, vehicles, lead_profiles, leads, sales, escalations,
                      escalation_store, reservations, journey_lock, callbacks, lock, pc, frame>>
    \/ /\ ~rejected
       /\ Len(leads) < MaxLeads
       /\ Len(sales) < MaxSales
       /\ sales' = InsertSale(sales, vehicle_id, lead_id, sold_price,
                              vehicles[vehicle_id].price, sold_at, now)
       /\ vehicles' = SaleVehicleWrites(vehicles, vehicle_id, keep_vehicle_record)
       /\ lead_profiles' = MarkLeadWon(lead_profiles, lead_id, now, vehicle_id)
       /\ leads' = InsertLeadEvent(leads, vehicle_id, "sale_closed", now, lead_id)
       /\ result' = [args |-> args, op |-> "record_sale", raised |-> FALSE]
       /\ UNCHANGED <<now, escalations, escalation_store, reservations, journey_lock, callbacks, lock, pc, frame>>

\* detector.register_callback
RegisterCallback(cb) ==
    /\ callbacks' = Append(callbacks, cb)
    /\ result' = [args |-> cb, op |-> "register_callback"]
    /\ UNCHANGED <<now, tables, escalation_store, reservations, journey_lock, lock, pc, frame>>

\* detector.clear_callbacks
ClearCallbacks ==
    /\ callbacks' = <<>>
    /\ result' = [op |-> "clear_callbacks"]
    /\ UNCHANGED <<now, tables, escalation_store, reservations, journey_lock, lock, pc, frame>>

\* Mutation: the UPDATE has no "AND delivered = 0" and flips the flag
MarkDelivered_Toggle(escalation_id) ==
    LET hit == escalation_id \in DOMAIN escalations
    IN  /\ escalation_store
        /\ escalations' = IF hit
                          THEN [escalations EXCEPT ![escalation_id].delivered = 1 - @]
                          ELSE escalations
        /\ result' = [args |-> escalation_id, op |-> "mark_delivered", ret |-> hit]
        /\ UNCHANGED <<now, vehicles, lead_profiles, leads, sales,
                       escalation_store, reservations, journey_lock, callbacks, lock, pc, frame>>

\* EscalationStore.mark_delivered; escalation ids are row numbers
MarkDelivered(escalation_id) ==
    LET hit == /\ escalation_id \in DOMAIN escalations
               /\ escalations[escalation_id].delivered = 0
    IN  /\ escalation_store
        /\ escalations' = IF hit
                          THEN [escalations EXCEPT ![escalation_id].delivered = 1]
                          ELSE escalations
        /\ result' = [args |-> escalation_id, op |-> "mark_delivered", ret |-> hit]
        /\ UNCHANGED <<now, vehicles, lead_profiles, leads, sales,
                       escalation_store, reservations, journey_lock, callbacks, lock, pc, frame>>

\* Time passes between calls
AdvanceClock(days) ==
    /\ now + days <= MaxNow
    /\ now' = now + days
    /\ UNCHANGED <<vehicles, lead_profiles, leads, sales, escalations,
                   escalation_store, reservations, journey_lock, callbacks, result, lock, pc, frame>>

---------------------------------------------------------------------------
(* The store operations as steps of threads sharing the connection         *)

\* The frame of a thread that has made no call
NoFrame == [op |-> "none"]

\* Threads inside a call
InFlight == {t \in Threads : pc[t] # "idle"}

\* Mutation: the mutex admits a thread whoever holds it
LockAvailable_Always(holder, t) == TRUE

\* threading.RLock: free, or held by the asking thread
LockAvailable(holder, t) == holder = NoThread \/ holder = t

\* A whole-call operation run by some other thread: it takes the mutex for
\* its entire body
AtomicCall(holder) == LockAvailable(holder, NoThread)

\* record_lead up to the `with self._lock`: the clock is read and the
\* arguments are normalized
StartRecordLead(t, vehicle_id, action, customer_id, session_id) ==
    /\ pc[t] = "idle"
    /\ Len(leads) + Cardinality(InFlight) < ThreadMaxLeads
    /\ frame' = [frame EXCEPT ![t] =
          [ args |-> [ action |-> action, customer_contact |-> "",
                       customer_id |-> customer_id, customer_name |-> "",
                       lead_id |-> NoLead, session_id |-> session_id,
                       vehicle_id |-> vehicle_id ],
            existing_status |-> "new", lead_id |-> NoLead,
            next_status |-> "new", now_iso |-> now, op |-> "record_lead",
            raised |-> FALSE, resolved |-> NoLead, row |-> 0, score |-> 0 ]]
    /\ pc' = [pc EXCEPT ![t] = "rl_lock"]
    /\ UNCHANGED <<now, tables, escalation_store, reservations, journey_lock, callbacks, result, lock>>

\* `with self._lock:` entered, in record_lead and in record_sale
Acquire(t) ==
    /\ pc[t] \in {"rl_lock", "rs_lock"}
    /\ LockAvailable(lock, t)
    /\ lock' = t
    /\ pc' = [pc EXCEPT ![t] = IF pc[t] = "rl_lock" THEN "rl_select" ELSE "rs_write"]
    /\ UNCHANGED <<now, tables, escalation_store, reservations, journey_lock, callbacks, result, frame>>

\* record_lead: the vehicle SELECT; ValueError leaves the `with` block
SelectVehicle(t) ==
    /\ pc[t] = "rl_select"
    /\ \/ /\ ~VehicleIsActive(vehicles, frame[t].args.vehicle_id)
          /\ frame' = [frame EXCEPT ![t].raised = TRUE]
          /\ pc' = [pc EXCEPT ![t] = "idle"]
          /\ lock' = NoThread
          /\ result' = [args |-> frame[t].args, op |-> "record_lead",
                        raised |-> TRUE, ret |-> NoLead]
       \/ /\ VehicleIsActive(vehicles, frame[t].args.vehicle_id)
          /\ pc' = [pc EXCEPT ![t] = "rl_lookup"]
          /\ UNCHANGED <<frame, lock, result>>
    /\ UNCHANGED <<now, tables, escalation_store, reservations, journey_lock, callbacks>>

\* _resolve_or_create_lead_profile: the call of _lookup_lead_profile_id
LookupProfile(t) ==
    /\ pc[t] = "rl_lookup"
    /\ \E resolved \in LookupLeadProfileId(
                           lead_profiles, frame[t].args.lead_id,
                           frame[t].args.customer_id,
                           frame[t].args.customer_contact,
                           frame[t].args.session_id) :
          frame' = [frame EXCEPT ![t].resolved = resolved]
    /\ pc' = [pc EXCEPT ![t] = "rl_resolve"]
    /\ UNCHANGED <<now, tables, escalation_store, reservations, journey_lock, callbacks, result, lock>>

\* _resolve_or_create_lead_profile: the UPDATE of the profile found or the
\* INSERT of a new one
ResolveProfile(t) ==
    /\ pc[t] = "rl_resolve"
    /\ LET fresh == FreshProfileId(lead_profiles)
           f == frame[t]
       IN  /\ lead_profiles' = ResolveOrCreateLeadProfile(
                  lead_profiles, f.resolved, fresh, f.args.vehicle_id,
                  f.now_iso, f.args.customer_id, f.args.session_id,
                  f.args.customer_name, f.args.customer_contact)
           /\ frame' = [frame EXCEPT ![t].lead_id =
                           IF f.resolved = NoLead THEN fresh ELSE f.resolved]
    /\ pc' = [pc EXCEPT ![t] = "rl_insert"]
    /\ UNCHANGED <<now, vehicles, leads, sales, escalations, escalation_store, reservations, journey_lock, callbacks,
                   result, lock>>

\* record_lead: _insert_lead_event and the lead_count UPDATE
InsertEvent(t) ==
    /\ pc[t] = "rl_insert"
    /\ leads' = InsertLeadEvent(leads, frame[t].args.vehicle_id,
                                frame[t].args.action, frame[t].now_iso,
                                frame[t].lead_id)
    /\ vehicles' = BumpLeadCount(vehicles, frame[t].args.vehicle_id)
    /\ frame' = [frame EXCEPT ![t].row = Len(leads) + 1]
    /\ pc' = [pc EXCEPT ![t] = "rl_score"]
    /\ UNCHANGED <<now, lead_profiles, sales, escalations, escalation_store, reservations, journey_lock, callbacks,
                   result, lock>>

\* record_lead: _compute_lead_score, the SELECT of the stored status and the
\* choice of the next status
ScoreLead(t) ==
    /\ pc[t] = "rl_score"
    /\ LET score == ComputeLeadScore(leads, frame[t].lead_id, frame[t].now_iso)
           existing_status == ExistingStatus(lead_profiles, frame[t].lead_id)
       IN  frame' = [frame EXCEPT ![t].score = score,
                                  ![t].existing_status = existing_status,
                                  ![t].next_status = NextStatus(existing_status, score)]
    /\ pc' = [pc EXCEPT ![t] = "rl_update"]
    /\ UNCHANGED <<now, tables, escalation_store, reservations, journey_lock, callbacks, result, lock>>

\* record_lead: the UPDATE of the profile, the commit, the escalation and
\* the end of the `with` block
UpdateProfile(t) ==
    /\ pc[t] = "rl_update"
    /\ LET f == frame[t]
       IN  /\ lead_profiles' = UpdateLeadProfile(
                  lead_profiles, f.lead_id, f.score, f.next_status, f.now_iso,
                  f.args.vehicle_id)
           /\ LET notified == NotifyCallbacks(callbacks, escalation_store,
                                               f.existing_status, f.next_status)
              IN  /\ escalations' =
                         IF notified.raised THEN escalations
                         ELSE EscalateOnTransition(
                                 escalations, escalation_store, f.lead_id,
                                 f.existing_status, f.next_status, f.score)
                  /\ result' = [args |-> f.args,
                                existing_status |-> f.existing_status,
                                invoked |-> notified.invoked,
                                op |-> "record_lead",
                                raised |-> notified.raised,
                                ret |-> IF notified.raised THEN NoLead
                                        ELSE f.lead_id]
    /\ pc' = [pc EXCEPT ![t] = "idle"]
    /\ lock' = NoThread
    /\ UNCHANGED <<now, vehicles, leads, sales, escalation_store, reservations, journey_lock, callbacks, frame>>

\* journey._MAX_TTL_DAYS and journey._MAX_LIST_SIZE
MAX_TTL_DAYS == 90
MAX_LIST_SIZE == 10000

\* journey._prune_list: entries created more than _MAX_TTL_DAYS ago are
\* dropped, then the list is cut to its last _MAX_LIST_SIZE entries
PruneList(items, now_dt) ==
    LET kept == SelectSeq(items, LAMBDA r : r.created_at >= now_dt - MAX_TTL_DAYS)
    IN  IF Len(kept) > MAX_LIST_SIZE
        THEN SubSeq(kept, Len(kept) - MAX_LIST_SIZE + 1, Len(kept))
        ELSE kept

\* reserve_vehicle: the positions of the reservations of the vehicle that
\* the loop stops at: status active and hold_until > now_dt
ActiveHolds(items, vehicle_id, now_dt) ==
    {i \in DOMAIN items :
        /\ items[i].vehicle_id = vehicle_id
        /\ items[i].status = "active"
        /\ items[i].hold_until > now_dt}

\* Mutation: the journey mutex admits a thread whoever holds it
JourneyLockAvailable_Always(holder, t) == TRUE

\* journey._lock, a threading.RLock: free, or held by the asking thread
JourneyLockAvailable(holder, t) == holder = NoThread \/ holder = t

\* journey.reserve_vehicle up to `with _lock`: the clock is read.
\* hold_hours is counted in the model's time unit (24 hours).  Calls that
\* can append are capped by MaxReservations; a call that starts against a
\* running hold appends nothing and is always admitted.
StartReserveVehicle(t, vehicle_id, customer_name, hold_hours) ==
    /\ pc[t] = "idle"
    /\ \/ Len(reservations) + Cardinality(InFlight) < MaxReservations
       \/ ActiveHolds(reservations, vehicle_id, now) # {}
    /\ frame' = [frame EXCEPT ![t] =
          [ args |-> [ customer_name |-> customer_name, hold_hours |-> hold_hours,
                       vehicle_id |-> vehicle_id ],
            now_iso |-> now, op |-> "reserve_vehicle" ]]
    /\ pc' = [pc EXCEPT ![t] = "rv_lock"]
    /\ UNCHANGED <<now, tables, escalation_store, callbacks, reservations,
                   journey_lock, result, lock>>

\* reserve_vehicle: `with _lock:` entered
AcquireJourney(t) ==
    /\ pc[t] = "rv_lock"
    /\ JourneyLockAvailable(journey_lock, t)
    /\ journey_lock' = t
    /\ pc' = [pc EXCEPT ![t] = "rv_scan"]
    /\ UNCHANGED <<now, tables, escalation_store, callbacks, reservations,
                   result, lock, frame>>

\* reserve_vehicle: _prune_list and the loop over _reservations; the first
\* active hold of the vehicle that ends after the call's `now` is returned
\* with status already_reserved
ScanReservations(t) ==
    /\ pc[t] = "rv_scan"
    /\ LET f == frame[t]
           pruned == PruneList(reservations, now)
           held == ActiveHolds(pruned, f.args.vehicle_id, f.now_iso)
           first == CHOOSE i \in held : \A j \in held : i <= j
       IN  /\ reservations' = pruned
           /\ IF held # {}
              THEN /\ result' = [ args |-> f.args, op |-> "reserve_vehicle",
                                  ret |-> [pruned[first] EXCEPT
                                              !.status = "already_reserved"] ]
                   /\ pc' = [pc EXCEPT ![t] = "idle"]
                   /\ frame' = [frame EXCEPT ![t] = NoFrame]
                   /\ journey_lock' = NoThread
              ELSE /\ pc' = [pc EXCEPT ![t] = "rv_append"]
                   /\ UNCHANGED <<result, journey_lock, frame>>
    /\ UNCHANGED <<now, tables, escalation_store, callbacks, lock>>

\* reserve_vehicle: the record is appended and returned, the lock released
\* and the call's locals dropped
AppendReservation(t) ==
    /\ pc[t] = "rv_append"
    /\ LET f == frame[t]
           record == [ created_at |-> f.now_iso,
                       customer_name |-> f.args.customer_name,
                       hold_until |-> f.now_iso + f.args.hold_hours,
                       status |-> "active", vehicle_id |-> f.args.vehicle_id ]
       IN  /\ reservations' = Append(reservations, record)
           /\ result' = [args |-> f.args, op |-> "reserve_vehicle", ret |-> record]
    /\ pc' = [pc EXCEPT ![t] = "idle"]
    /\ frame' = [frame EXCEPT ![t] = NoFrame]
    /\ journey_lock' = NoThread
    /\ UNCHANGED <<now, tables, escalation_store, callbacks, lock>>

\* record_sale up to the call of get(): sold_at is parsed
StartRecordSale(t, vehicle_id, sold_price, sold_at, lead_id, keep_vehicle_record) ==
    LET args == [ keep_vehicle_record |-> keep_vehicle_record,
                  lead_id |-> lead_id, sold_at |-> sold_at,
                  sold_price |-> sold_price, vehicle_id |-> vehicle_id ]
    IN  /\ pc[t] = "idle"
        /\ Len(leads) + Cardinality(InFlight) < ThreadMaxLeads
        /\ Len(sales) + Cardinality(InFlight) < MaxSales
        /\ \/ /\ sold_at = NoTime
              /\ frame' = [frame EXCEPT ![t] =
                    [ args |-> args, now_iso |-> NoTime, op |-> "record_sale",
                      raised |-> TRUE, vehicle |-> {} ]]
              /\ result' = [args |-> args, op |-> "record_sale", raised |-> TRUE]
              /\ UNCHANGED pc
           \/ /\ sold_at # NoTime
              /\ frame' = [frame EXCEPT ![t] =
                    [ args |-> args, now_iso |-> NoTime, op |-> "record_sale",
                      raised |-> FALSE, vehicle |-> {} ]]
              /\ pc' = [pc EXCEPT ![t] = "rs_get"]
              /\ UNCHANGED result
        /\ UNCHANGED <<now, tables, escalation_store, reservations, journey_lock, callbacks, lock>>

\* record_sale: vehicle = self.get(vehicle_id), which takes and releases
\* the mutex, then the sold_price check and self._now()
GetVehicle(t) ==
    /\ pc[t] = "rs_get"
    /\ LockAvailable(lock, t)
    /\ LET vehicle == Get(vehicles, frame[t].args.vehicle_id)
       IN  \/ /\ vehicle = {} \/ frame[t].args.sold_price < 0
              /\ frame' = [frame EXCEPT ![t].raised = TRUE]
              /\ pc' = [pc EXCEPT ![t] = "idle"]
              /\ result' = [args |-> frame[t].args, op |-> "record_sale",
                            raised |-> TRUE]
           \/ /\ vehicle # {} /\ frame[t].args.sold_price >= 0
              /\ frame' = [frame EXCEPT ![t].vehicle = vehicle,
                                        ![t].now_iso = now]
              /\ pc' = [pc EXCEPT ![t] = "rs_lock"]
              /\ UNCHANGED result
    /\ UNCHANGED <<now, tables, escalation_store, reservations, journey_lock, callbacks, lock>>

\* record_sale: the statements inside `with self._lock`, the commit and the
\* end of the block.  listed_price is the price in the dict get() returned.
WriteSale(t) ==
    /\ pc[t] = "rs_write"
    /\ LET f == frame[t]
           listed_price == (CHOOSE v \in f.vehicle : TRUE).row.price
       IN  /\ sales' = InsertSale(sales, f.args.vehicle_id, f.args.lead_id,
                                  f.args.sold_price, listed_price,
                                  f.args.sold_at, f.now_iso)
           /\ vehicles' = SaleVehicleWrites(vehicles, f.args.vehicle_id,
                                            f.args.keep_vehicle_record)
           /\ lead_profiles' = MarkLeadWon(lead_profiles, f.args.lead_id,
                                           f.now_iso, f.args.vehicle_id)
           /\ leads' = InsertLeadEvent(leads, f.args.vehicle_id, "sale_closed",
                                       f.now_iso, f.args.lead_id)
           /\ result' = [args |-> f.args, op |-> "record_sale", raised |-> FALSE]
    /\ pc' = [pc EXCEPT ![t] = "idle"]
    /\ lock' = NoThread
    /\ UNCHANGED <<now, escalations, escalation_store, reservations, journey_lock, callbacks, frame>>

---------------------------------------------------------------------------
(* Specifications                                                          *)

\* SqliteVehicleStore.__init__ on an empty database, with or without
\* the escalation store attached
Init ==
    /\ now = 0
    /\ vehicles = <<>>
    /\ lead_profiles = <<>>
    /\ leads = <<>>
    /\ sales = <<>>
    /\ escalations = <<>>
    /\ escalation_store \in BOOLEAN
    /\ callbacks = <<>>
    /\ reservations = <<>>
    /\ journey_lock = NoThread
    /\ result = [op |-> "init"]
    /\ lock = NoThread
    /\ pc = [t \in Threads |-> "idle"]
    /\ frame = [t \in Threads |-> NoFrame]

\* An upsert payload with explicit timestamps
Payload(id, availability_status, vin, price, latitude, ingested_at, expires_at) ==
    [ availability_status |-> availability_status, expires_at |-> expires_at,
      id |-> id, ingested_at |-> ingested_at, last_verified |-> ingested_at,
      latitude |-> latitude, lead_count |-> NoValue, price |-> price,
      ttl_days |-> NoValue, vin |-> vin ]

\* Inputs of the lead-scoring specification
ScoringActions == {"financed", "purchase_deposit"}
ScoringCustomers == {"c1"}
ScoringAdvances == {16}

\* One customer's engagement over time against one vehicle
Next ==
    \/ Upsert(Payload("v1", Absent, "vina", 100, NoValue, 0, MaxNow + 1))
    \/ \E action \in ScoringActions, lead_id \in 0..1,
          customer_id \in ScoringCustomers :
          RecordLead("v1", action, lead_id, customer_id, "", "", "")
    \/ RecordSale("v1", 90, now, 1, TRUE)
    \/ \E escalation_id \in 1..2 : MarkDelivered(escalation_id)
    \/ \E days \in ScoringAdvances : AdvanceClock(days)

Spec == Init /\ [][Next]_vars

\* Inputs of the score-decay specification
DecayActions == {"availability_check", "purchase_deposit"}
DecayAdvances == {1, 8}

\* One customer repeating actions as days pass, escalations not attached
InitDecay == Init /\ escalation_store = FALSE

NextDecay ==
    \/ Upsert(Payload("v1", Absent, "vina", 100, NoValue, 0, MaxNow + 1))
    \/ \E action \in DecayActions : RecordLead("v1", action, 0, "c1", "", "", "")
    \/ \E days \in DecayAdvances : now + days <= DecayHorizon /\ AdvanceClock(days)

SpecDecay == InitDecay /\ [][NextDecay]_vars

\* Inputs of the identity-resolution specification
IdentityActions == {"financed", "availability_check"}
IdentityLeadIds == 0..2
IdentityCustomers == {"", " c1 "}
IdentitySessions == {"", "s1"}
IdentityContacts == {"", " A@X "}

\* Callers presenting every combination of lead id and identity signals
NextIdentity ==
    \/ Upsert(Payload("v1", Absent, "vina", 100, NoValue, 0, MaxNow + 1))
    \/ \E action \in IdentityActions, lead_id \in IdentityLeadIds,
          customer_id \in IdentityCustomers, session_id \in IdentitySessions,
          customer_contact \in IdentityContacts :
          /\ Len(leads) < IdentityMaxLeads
          /\ RecordLead("v1", action, lead_id, customer_id, session_id, "",
                     customer_contact)

SpecIdentity == Init /\ [][NextIdentity]_vars

\* Inputs of the inventory specification: the listings dealers send
InventoryListings ==
    { Payload("v1", Absent, "vina", 100, 30, NoTime, NoTime),
      Payload("v1", SOLD_STATUS, "vina", 100, 30, NoTime, NoTime),
      Payload("v2", Absent, "vina", 200, NoValue, NoTime, NoTime),
      Payload("v2", ARCHIVED_REMOVED_STATUS, "vina", 200, NoValue, NoTime, NoTime) }
InventoryAdvances == {8}
InventoryBatches ==
    { <<>>,
      << BatchItem(Payload("v1", Absent, "vina", 150, 30, NoTime, NoTime), Serializable),
         BatchItem(Payload("v2", Absent, "vina", 200, NoValue, NoTime, NoTime), Serializable) >>,
      << BatchItem(Payload("v1", Absent, "vina", 150, 30, NoTime, NoTime), Serializable),
         BatchItem(Payload("v2", Absent, "vinb", 200, NoValue, NoTime, NoTime), Unserializable) >> }
InventoryToolBatches ==
    { << BatchItem(Payload("v1", Absent, "vina", 150, 30, NoTime, NoTime), Serializable),
         BatchItem(Payload("v2", Absent, "vinb", 0 - 5, NoValue, NoTime, NoTime), Serializable) >>,
      << BatchItem(Payload("v1", Absent, "vina", 150, 30, NoTime, NoTime), Serializable),
         BatchItem(Payload("v2", Absent, "vinb", 200, NoValue, NoTime, NoTime), Unserializable) >>,
      << BatchItem(Payload("v1", Absent, "vina", 150, 30, NoTime, NoTime), Serializable),
         BatchItem(Payload("v2", Absent, "vinb", 200, NoValue, NoTime, NoTime), Serializable) >> }

\* Dealers listing, selling, removing and expiring two vehicles
NextInventory ==
    \/ \E vehicle \in InventoryListings : Upsert(vehicle)
    \/ \E vehicles_list \in InventoryBatches : UpsertMany(vehicles_list)
    \/ \E vehicles_list \in InventoryToolBatches : BulkUpsertVehiclesImpl(vehicles_list)
    \/ \E vehicle_id \in VehicleIds : Remove(vehicle_id)
    \/ RemoveExpired
    \/ \E vehicle_id \in VehicleIds, keep_vehicle_record \in BOOLEAN :
          RecordSale(vehicle_id, 90, now, NoLead, keep_vehicle_record)
    \/ \E days \in InventoryAdvances :
          now + days <= InventoryHorizon /\ AdvanceClock(days)

SpecInventory == Init /\ [][NextInventory]_vars

\* Inputs of the concurrency specification
ThreadActions == {"financed", "availability_check"}
ThreadIdentities ==
    { [customer_id |-> "c1", session_id |-> ""],
      [customer_id |-> "", session_id |-> "s1"] }

\* The store with v1 listed, before any thread calls
InitThreads ==
    /\ now = 0
    /\ vehicles = UpsertRow(<<>>, "v1",
                      VehicleToRow(Payload("v1", Absent, "vina", 100, NoValue,
                                           NoTime, NoTime), 0))
    /\ lead_profiles = <<>>
    /\ leads = <<>>
    /\ sales = <<>>
    /\ escalations = <<>>
    /\ escalation_store \in BOOLEAN
    /\ callbacks = <<>>
    /\ reservations = <<>>
    /\ journey_lock = NoThread
    /\ result = [op |-> "init"]
    /\ lock = NoThread
    /\ pc = [t \in Threads |-> "idle"]
    /\ frame = [t \in Threads |-> NoFrame]

\* Two threads recording leads and sales on v1 while it may be removed
NextThreads ==
    \/ \E t \in Threads, action \in ThreadActions, who \in ThreadIdentities :
          StartRecordLead(t, "v1", action, who.customer_id, who.session_id)
    \/ \E t \in Threads : Acquire(t)
    \/ \E t \in Threads : SelectVehicle(t)
    \/ \E t \in Threads : LookupProfile(t)
    \/ \E t \in Threads : ResolveProfile(t)
    \/ \E t \in Threads : InsertEvent(t)
    \/ \E t \in Threads : ScoreLead(t)
    \/ \E t \in Threads : UpdateProfile(t)
    \/ \E t \in Threads, sold_at \in {0, NoTime}, keep_vehicle_record \in BOOLEAN :
          StartRecordSale(t, "v1", 90, sold_at, NoLead, keep_vehicle_record)
    \/ \E t \in Threads : GetVehicle(t)
    \/ \E t \in Threads : WriteSale(t)
    \/ AtomicCall(lock) /\ Remove("v1")

SpecThreads == InitThreads /\ [][NextThreads]_vars

\* Inputs of the sales specification
SalesListings ==
    { Payload("v1", Absent, "vina", 100, NoValue, NoTime, NoTime),
      Payload("v2", Absent, "vinb", 200, NoValue, NoTime, NoTime) }
SalesCustomers == {"c1"}
SalesLeadIds == 0..1
\* <<sold_price, sold_at is parseable>> of the record_sale calls
SalesTerms == {<<90, TRUE>>, <<0 - 1, TRUE>>, <<90, FALSE>>}

\* A dealer listing, removing and selling two vehicles to two customers;
\* sold_at is the current time or a string that does not parse
NextSales ==
    \/ \E vehicle \in SalesListings : Upsert(vehicle)
    \/ Remove("v1")
    \/ \E vehicle_id \in VehicleIds, customer_id \in SalesCustomers :
          /\ Len(leads) < SalesMaxLeads \/ ~VehicleIsActive(vehicles, vehicle_id)
          /\ RecordLead(vehicle_id, "financed", NoLead, customer_id, "", "", "")
    \/ \E vehicle_id \in VehicleIds, customer_id \in SalesCustomers :
          RecordLeadUnserializable(vehicle_id, "financed", NoLead, customer_id,
                                   "", "", "")
    \/ \E vehicle_id \in VehicleIds, terms \in SalesTerms,
          lead_id \in SalesLeadIds, keep_vehicle_record \in BOOLEAN :
          /\ Len(sales) < SalesMaxSales
          /\ RecordSale(vehicle_id, terms[1], IF terms[2] THEN now ELSE NoTime,
                        lead_id, keep_vehicle_record)

SpecSales == Init /\ [][NextSales]_vars

\* Inputs of the callback specification
CallbackActions == {"purchase_deposit", "viewed"}
CallbackAdvances == {16}

\* One customer crossing the thresholds while callbacks are registered,
\* cleared and escalations delivered
NextCallbacks ==
    \/ Upsert(Payload("v1", Absent, "vina", 100, NoValue, NoTime, NoTime))
    \/ \E cb \in {Capture, Boom} :
          Len(callbacks) < MaxCallbacks /\ RegisterCallback(cb)
    \/ ClearCallbacks
    \/ \E action \in CallbackActions :
          /\ Len(leads) < CallbackMaxLeads
          /\ RecordLead("v1", action, NoLead, "c1", "", "", "")
    \/ \E escalation_id \in 1..2 : MarkDelivered(escalation_id)
    \/ \E days \in CallbackAdvances : AdvanceClock(days)

SpecCallbacks == Init /\ [][NextCallbacks]_vars

\* Inputs of the reservation specification
HoldCustomers == [t1 |-> "Pat Lee", t2 |-> "Alex Doe"]
HoldHours == {0, 1}
HoldAdvances == {1}

\* Two threads, one per customer, placing holds on two vehicles while time
\* passes
NextHolds ==
    \/ \E t \in Threads, vehicle_id \in VehicleIds, hold_hours \in HoldHours :
          StartReserveVehicle(t, vehicle_id, HoldCustomers[t], hold_hours)
    \/ \E t \in Threads : AcquireJourney(t)
    \/ \E t \in Threads : ScanReservations(t)
    \/ \E t \in Threads : AppendReservation(t)
    \/ \E days \in HoldAdvances : now + days <= HoldHorizon /\ AdvanceClock(days)

SpecHolds == InitDecay /\ [][NextHolds]_vars

\* Inputs of the profile-merge specification: one customer who comes back
\* under other names and contacts
MergeNames == {"", "Pat Lee", "Alex Doe"}
MergeContacts == {"", "a@x", "b@x"}
MergeSessions == {"", "s1", "s2"}

\* Leads of one customer id recorded on one vehicle
NextMerge ==
    \/ Upsert(Payload("v1", Absent, "vina", 100, NoValue, 0, MaxNow + 1))
    \/ \E session_id \in MergeSessions, customer_name \in MergeNames,
          customer_contact \in MergeContacts :
          /\ Len(leads) < MergeMaxLeads
          /\ RecordLead("v1", "viewed", NoLead, "c1", session_id, customer_name,
                        customer_contact)

SpecMerge == InitDecay /\ [][NextMerge]_vars

\* Inputs of the score-jump specification: the heaviest actions and the
\* lightest one, two customers, time steps across recency bands
JumpActions == {"purchase_deposit", "reserve_vehicle", "viewed"}
JumpCustomers == {"c1", "c2"}
JumpAdvances == {8}

\* Leads of two customers on one vehicle while their events age
NextJump ==
    \/ Upsert(Payload("v1", Absent, "vina", 100, NoValue, 0, MaxNow + 1))
    \/ \E action \in JumpActions, customer_id \in JumpCustomers :
          /\ Len(leads) < JumpMaxLeads
          /\ RecordLead("v1", action, NoLead, customer_id, "", "", "")
    \/ \E days \in JumpAdvances : now + days <= JumpHorizon /\ AdvanceClock(days)

SpecJump == Init /\ [][NextJump]_vars

\* Inputs of the history specification: one vehicle listed without a status
\* and a lead_count, as sold, and in transit with a lead_count; one customer
HistoryListings ==
    { Payload("v1", Absent, "vina", 100, NoValue, NoTime, NoTime),
      Payload("v1", SOLD_STATUS, "vina", 100, NoValue, NoTime, NoTime),
      [Payload("v1", "in_transit", "vina", 100, NoValue, NoTime, NoTime)
          EXCEPT !.lead_count = 5] }
HistoryBatches ==
    { << BatchItem(Payload("v1", Absent, "vina", 150, NoValue, NoTime, NoTime),
                   Serializable) >> }
HistoryLeadIds == 0..1
HistoryAdvances == {8}

\* A dealer listing, removing, expiring and selling a vehicle that a
\* customer leaves leads on
NextHistory ==
    \/ \E vehicle \in HistoryListings : Upsert(vehicle)
    \/ \E vehicles_list \in HistoryBatches : UpsertMany(vehicles_list)
    \/ Remove("v1")
    \/ RemoveExpired
    \/ /\ Len(leads) < HistoryMaxLeads \/ ~VehicleIsActive(vehicles, "v1")
       /\ RecordLead("v1", "financed", NoLead, "c1", "", "", "")
    \/ \E lead_id \in HistoryLeadIds, keep_vehicle_record \in BOOLEAN :
          RecordSale("v1", 90, now, lead_id, keep_vehicle_record)
    \/ \E days \in HistoryAdvances :
          now + days <= HistoryHorizon /\ AdvanceClock(days)

SpecHistory == Init /\ [][NextHistory]_vars

---------------------------------------------------------------------------
(* Properties of the lead engine                                           *)

\* The order new < engaged < qualified of the non-terminal statuses
StatusRank(status) ==
    CASE status = "new" -> 0
      [] status = "engaged" -> 1
      [] status = "qualified" -> 2
      [] OTHER -> 3

\* The step is a successful record_lead
IsRecordLeadStep ==
    /\ Len(leads') = Len(leads) + 1
    /\ leads'[Len(leads')].action # "sale_closed"

\* The profile a successful record_lead step resolved to
StepLead == leads'[Len(leads')].lead_id

\* C1: the status a record_lead stores is never lower, in the order
\* new < engaged < qualified, than the status stored before it.
C1_StatusNeverRegresses ==
    [][\A p \in DOMAIN lead_profiles :
          (/\ lead_profiles[p].status \in {"new", "engaged", "qualified"}
           /\ lead_profiles'[p].status \in {"new", "engaged", "qualified"})
          => StatusRank(lead_profiles'[p].status)
                 >= StatusRank(lead_profiles[p].status)]_vars

\* C3: for every lead and escalation type at most one escalation row is
\* undelivered, so a record_lead that repeats a transition whose escalation
\* is pending adds no row.
C3_OnePendingPerLeadAndType ==
    \A i, j \in DOMAIN escalations :
        (/\ i # j
         /\ escalations[i].delivered = 0
         /\ escalations[j].delivered = 0)
        => \/ escalations[i].lead_id # escalations[j].lead_id
           \/ escalations[i].escalation_type # escalations[j].escalation_type

\* C3 witness: a record_lead has just taken a lead from new to engaged once
\* more while its earlier cold_to_warm escalation was still pending, and the
\* table still holds that one row only.
C3_Witness ==
    /\ result.op = "record_lead"
    /\ ~result.raised
    /\ result.existing_status = "new"
    /\ lead_profiles[result.ret].status = "engaged"
    /\ Len(escalations) = 1
    /\ escalations[1].lead_id = result.ret
    /\ escalations[1].escalation_type = "cold_to_warm"
    /\ escalations[1].delivered = 0
    /\ escalations[1].score # lead_profiles[result.ret].score

\* C7: once a profile is won or lost no step changes its status, and no
\* escalation row is added for it.
C7_TerminalFreeze ==
    [][\A p \in DOMAIN lead_profiles :
          lead_profiles[p].status \in {"won", "lost"}
          => /\ lead_profiles'[p].status = lead_profiles[p].status
             /\ \A i \in (DOMAIN escalations') \ (DOMAIN escalations) :
                    escalations'[i].lead_id # p]_vars

\* C7 witness: a record_lead resolved to a won profile and stored a score
\* at or above the engaged threshold, and the status is still won.
C7_Witness ==
    /\ result.op = "record_lead"
    /\ ~result.raised
    /\ result.existing_status = "won"
    /\ lead_profiles[result.ret].status = "won"
    /\ lead_profiles[result.ret].score >= EngagedThreshold * ScoreScale
    /\ escalation_store

\* The events recorded for profile p
EventsOf(events, p) == {i \in DOMAIN events : events[i].lead_id = p}

\* All events of p are of one action with a positive weight and lie inside
\* the scoring window at time t
SameActionInWindow(events, p, t) ==
    /\ EventsOf(events, p) # {}
    /\ \A i, j \in EventsOf(events, p) : events[i].action = events[j].action
    /\ \A i \in EventsOf(events, p) :
          /\ LEAD_SCORE_WEIGHTS(events[i].action) > 0
          /\ events[i].created_at > t - ScoringWindowDays

\* No earlier event of p has moved to another recency band since the
\* previous call on p
NoBandChange(p) ==
    \A i \in EventsOf(leads, p) :
        RecencyMultiplier(Max(0, now - leads[i].created_at))
            = RecencyMultiplier(
                  Max(0, lead_profiles[p].last_activity_at - leads[i].created_at))

\* C8 as stated: when all events of a profile are of one positively weighted
\* action inside the scoring window, recording that action once more never
\* stores a score smaller than the score stored before.
C8_ScoreNeverDecreases ==
    [][(/\ IsRecordLeadStep
        /\ StepLead \in DOMAIN lead_profiles
        /\ SameActionInWindow(leads', StepLead, now))
       => lead_profiles'[StepLead].score >= lead_profiles[StepLead].score]_vars

\* C8 amended: the same, provided no earlier event of the profile has aged
\* into another recency band since the previous record_lead on it.
C8_ScoreNeverDecreasesWithinBands ==
    [][(/\ IsRecordLeadStep
        /\ StepLead \in DOMAIN lead_profiles
        /\ SameActionInWindow(leads', StepLead, now)
        /\ NoBandChange(StepLead))
       => lead_profiles'[StepLead].score >= lead_profiles[StepLead].score]_vars

\* C8 witness: a third purchase_deposit was recorded a day after two earlier
\* ones, all in the first recency band, and the stored score is 30.
C8_Witness ==
    /\ result.op = "record_lead"
    /\ ~result.raised
    /\ Len(leads) = 3
    /\ \A i \in 1..3 : leads[i].action = "purchase_deposit" /\ leads[i].lead_id = 1
    /\ leads[2].created_at = 0
    /\ leads[3].created_at = 1
    /\ lead_profiles[1].score = 3000

\* The step is a record_lead call, successful or raising
IsRecordLeadCall ==
    /\ result'.op = "record_lead"
    /\ \/ IsRecordLeadStep
       \/ result.op # "record_lead"
       \/ result.raised # result'.raised
       \/ result.args # result'.args

\* A request signal, once normalized, is non-empty and equals the stored one
Matches(profile, args) ==
    \/ Strip(args.customer_id) # "" /\ Strip(args.customer_id) = profile.customer_id
    \/ /\ NormalizeContact(args.customer_contact) # ""
       /\ NormalizeContact(args.customer_contact) = profile.customer_contact
    \/ Strip(args.session_id) # "" /\ Strip(args.session_id) = profile.session_id

\* The request names a stored profile and none of its signals matches it
Untrusted(profiles, args) ==
    /\ args.lead_id \in DOMAIN profiles
    /\ ~Matches(profiles[args.lead_id], args)

OneFinancedToday(L) ==
    /\ L \in DOMAIN lead_profiles
    /\ \E i \in DOMAIN leads :
          /\ EventsOf(leads, L) = {i}
          /\ leads[i].action = "financed"
          /\ leads[i].created_at = now

\* Both events are on L, its score is 11 and it is engaged; with the
\* escalation store attached exactly one undelivered cold_to_warm row is
\* held for L
ContinuedToEngaged(L) ==
    /\ ~result'.raised
    /\ StepLead = L
    /\ Cardinality(EventsOf(leads', L)) = 2
    /\ lead_profiles'[L].score = 11 * ScoreScale
    /\ lead_profiles'[L].status = "engaged"
    /\ escalation_store
       => Cardinality({i \in DOMAIN escalations' :
              /\ escalations'[i].lead_id = L
              /\ escalations'[i].escalation_type = "cold_to_warm"
              /\ escalations'[i].delivered = 0}) = 1

C9_OneProfilePerCustomerId ==
    \A p, q \in DOMAIN lead_profiles :
        (p # q /\ lead_profiles[p].customer_id # "")
        => lead_profiles[p].customer_id # lead_profiles[q].customer_id

---------------------------------------------------------------------------
(* Properties of the inventory                                             *)

\* The queries asked of every state
QueryFilters ==
    {[price_max |-> hi, price_min |-> lo] : lo \in {NoValue, 150}, hi \in {NoValue, 150}}
QueryVins == {"vina", "VINA"}
QueryPages == {<<1, 0>>, <<1, 1>>, <<2, 0>>}

\* The stored status of a returned row is not archived and, unless sold
\* rows were asked for, not sold
Visible(r, include_sold) ==
    /\ r.id \in DOMAIN vehicles
    /\ vehicles[r.id].availability_status \notin
           {ARCHIVED_SOLD_STATUS, ARCHIVED_REMOVED_STATUS}
    /\ include_sold \/ vehicles[r.id].availability_status # SOLD_STATUS

\* The number of stored rows that may be counted
Countable(include_sold) ==
    Cardinality({id \in DOMAIN vehicles :
                    Visible([id |-> id, row |-> vehicles[id]], include_sold)})

\* C10: get, get_many and get_by_vin return no archived vehicle; search,
\* search_by_location, search_page, count_filtered and count return or
\* count no archived vehicle and, unless include_sold is set, no sold one.
C10_Visibility ==
    /\ \A id \in VehicleIds : \A r \in Get(vehicles, id) : Visible(r, TRUE)
    /\ \A r \in Range(GetMany(vehicles, IdOrder)) : Visible(r, TRUE)
    /\ \A vin \in QueryVins : \A r \in GetByVin(vehicles, vin) : Visible(r, TRUE)
    /\ Count(vehicles) <= Countable(FALSE)
    /\ \A include_sold \in BOOLEAN, filters \in QueryFilters :
          /\ \A r \in Range(Search(vehicles, filters, include_sold)) :
                Visible(r, include_sold)
          /\ \A r \in SearchByLocation(vehicles, 0, 50, filters, include_sold) :
                Visible(r, include_sold)
          /\ \A page \in QueryPages :
                \A r \in Range(SearchPage(vehicles, filters, page[1], page[2],
                                          include_sold)) :
                    Visible(r, include_sold)
          /\ CountFiltered(vehicles, filters, include_sold)
                 <= Countable(include_sold)

\* C10 witness: v1 was sold without keeping its record and v2 was sold and
\* kept; get returns v2 only, search returns v2 only when sold rows are asked
\* for, and count is 0.
C10_Witness ==
    /\ DOMAIN vehicles = VehicleIds
    /\ vehicles["v1"].availability_status = ARCHIVED_SOLD_STATUS
    /\ vehicles["v2"].availability_status = SOLD_STATUS
    /\ Get(vehicles, "v1") = {}
    /\ Get(vehicles, "v2") # {}
    /\ Len(GetMany(vehicles, IdOrder)) = 1
    /\ Len(Search(vehicles, [price_max |-> NoValue, price_min |-> NoValue], TRUE)) = 1
    /\ Search(vehicles, [price_max |-> NoValue, price_min |-> NoValue], FALSE) = <<>>
    /\ Count(vehicles) = 0

---------------------------------------------------------------------------
(* Properties of concurrent calls                                          *)

\* No thread is inside a call
Quiescent == \A t \in Threads : pc[t] = "idle"

\* The last call of thread t was a record_lead that returned
CompletedLead(t) == frame[t].op = "record_lead" /\ ~frame[t].raised

\* C4: when the concurrent record_lead calls have returned, one profile
\* exists per customer id or session id, the event of each call is attached
\* to the profile of its caller, lead_count has risen by one per event, and
\* every stored score and status are those computed over all the events of
\* the profile.
C4_RecordLeadAtomic ==
    Quiescent
    => /\ \A p, q \in DOMAIN lead_profiles :
              (/\ lead_profiles[p].customer_id = lead_profiles[q].customer_id
               /\ lead_profiles[p].session_id = lead_profiles[q].session_id)
              => p = q
       /\ \A t \in Threads :
              CompletedLead(t)
              => /\ frame[t].row \in DOMAIN leads
                 /\ leads[frame[t].row].lead_id = frame[t].lead_id
                 /\ frame[t].lead_id \in DOMAIN lead_profiles
                 /\ lead_profiles[frame[t].lead_id].customer_id
                        = Strip(frame[t].args.customer_id)
                 /\ lead_profiles[frame[t].lead_id].session_id
                        = Strip(frame[t].args.session_id)
       /\ vehicles["v1"].lead_count
              = Cardinality({i \in DOMAIN leads : leads[i].action # "sale_closed"})
       /\ \A p \in DOMAIN lead_profiles :
              /\ lead_profiles[p].score = ComputeLeadScore(leads, p, now)
              /\ lead_profiles[p].status
                     = NextStatus("new", lead_profiles[p].score)

\* C4 witness: both threads called record_lead(financed) for customer c1
\* when no profile existed; one created profile 1, the other found it; the
\* profile holds both events, score 12 and status engaged, and lead_count is 2.
C4_Witness ==
    /\ Quiescent
    /\ \A t \in Threads :
          /\ CompletedLead(t)
          /\ frame[t].args.customer_id = "c1"
          /\ frame[t].args.action = "financed"
          /\ frame[t].lead_id = 1
    /\ frame["t1"].resolved = NoLead
    /\ frame["t2"].resolved = 1
    /\ DOMAIN lead_profiles = {1}
    /\ Len(leads) = 2
    /\ lead_profiles[1].score = 12 * ScoreScale
    /\ lead_profiles[1].status = "engaged"
    /\ vehicles["v1"].lead_count = 2

\* C5: record_sale holds the mutex from its vehicle check to its writes, so
\* no step sets a vehicle that is archived back to sold.
C5_SaleNeverRevivesArchived ==
    [][\A v \in DOMAIN vehicles :
          vehicles[v].availability_status \in ARCHIVED_STATUSES
          => vehicles'[v].availability_status # SOLD_STATUS]_vars

---------------------------------------------------------------------------
(* Properties of upsert and remove                                         *)

\* The step is a remove(result'.args) that archived a row
IsRemoveStep ==
    /\ result'.op = "remove"
    /\ vehicles' # vehicles

\* C11: when get(id) is non-null, remove(id) leaves get(id) None, count()
\* one less, the row present with status archived_removed, and the lead
\* events as they were.
C11_RemoveHidesOneVehicle ==
    [][(IsRemoveStep /\ Get(vehicles, result'.args) # {})
       => /\ Get(vehicles', result'.args) = {}
          /\ Count(vehicles') = Count(vehicles) - 1
          /\ result'.args \in DOMAIN vehicles'
          /\ vehicles'[result'.args].availability_status = ARCHIVED_REMOVED_STATUS
          /\ leads' = leads]_vars

\* The public records in rs without ingested_at, expires_at and last_verified
WithoutTimestamps(rs) ==
    {[ availability_status |-> r.row.availability_status, id |-> r.id,
       latitude |-> r.row.latitude, lead_count |-> r.row.lead_count,
       price |-> r.row.price, vin |-> r.row.vin ] : r \in rs}

\* The last call was upsert(v) and the step (if any) is upsert(v) again
IsRepeatedUpsert ==
    /\ result.op = "upsert"
    /\ result'.op = "upsert"
    /\ result'.args = result.args
    /\ now' = now

IsUpsertStep ==
    /\ result'.op = "upsert"
    /\ now' = now

\* C13: an upsert of an id that already has a row, with a payload that
\* supplies neither ingested_at nor last_verified, leaves the stored
\* ingested_at and last_verified as they were.
C13_RefreshKeepsFirstIngestion ==
    [][(/\ IsUpsertStep
        /\ result'.args.id \in DOMAIN vehicles
        /\ result'.args.ingested_at = NoTime
        /\ result'.args.last_verified = NoTime)
       => /\ vehicles'[result'.args.id].ingested_at
                 = vehicles[result'.args.id].ingested_at
          /\ vehicles'[result'.args.id].last_verified
                 = vehicles[result'.args.id].last_verified]_vars

\* The vehicle ids whose rows are not archived
LiveIds == {id \in DOMAIN vehicles :
               vehicles[id].availability_status \notin ARCHIVED_STATUSES}

\* C14: no two rows that are not archived hold the same non-empty VIN,
\* compared case-insensitively.
C14_VinUnique ==
    \A a \in LiveIds, b \in LiveIds :
        (a # b /\ vehicles[a].vin # "")
            => Upper(vehicles[a].vin) # Upper(vehicles[b].vin)

\* The step (if any) is a batch upsert, through the store or the tool
IsBatchStep ==
    /\ result'.op \in {"upsert_many", "bulk_upsert_vehicles"}
    /\ now' = now

\* The batch of the step was rejected by validation or failed while written
BatchFailed ==
    \/ result'.raised
    \/ result'.op = "bulk_upsert_vehicles" /\ result'.ret = "Error"

\* C19: a batch with an item that is rejected or fails to be written leaves
\* every vehicle row as it was, the rows of the items before it included.
C19_BatchAllOrNothing ==
    [][(IsBatchStep /\ BatchFailed) => vehicles' = vehicles]_vars

\* C19 witness: upsert_many raised on its second item and v1, its first item,
\* is not in the table.
C19_Witness ==
    /\ result.op = "upsert_many"
    /\ result.raised
    /\ result.args[1].features = Serializable
    /\ result.args[1].vehicle.id = "v1"
    /\ result.args[2].features = Unserializable
    /\ "v1" \notin DOMAIN vehicles

---------------------------------------------------------------------------
(* Properties of record_sale and of rejected calls                         *)

\* The step is a record_sale that returned
IsSaleStep ==
    /\ result'.op = "record_sale"
    /\ ~result'.raised
    /\ sales' # sales

\* The table's rows before the step are the rows before its last one after
KeepsEarlierRows(before, after) ==
    /\ Len(after) = Len(before) + 1
    /\ SubSeq(after, 1, Len(before)) = before

\* The Sale row and the vehicle status a successful record_sale leaves
SaleRowAndStatus ==
    LET a == result'.args
        sale == sales'[Len(sales')]
    IN  /\ KeepsEarlierRows(sales, sales')
        /\ sale.vehicle_id = a.vehicle_id
        /\ sale.lead_id = a.lead_id
        /\ sale.listed_price = vehicles[a.vehicle_id].price
        /\ a.keep_vehicle_record
              => vehicles'[a.vehicle_id].availability_status = SOLD_STATUS
        /\ ~a.keep_vehicle_record
              => /\ vehicles'[a.vehicle_id].availability_status = ARCHIVED_SOLD_STATUS
                 /\ Get(vehicles', a.vehicle_id) = {}
                 /\ \A r \in Range(Search(vehicles', [price_max |-> NoValue,
                                                      price_min |-> NoValue], TRUE)) :
                       r.id # a.vehicle_id

\* The sale_closed event a successful record_sale adds under its lead id
SaleClosedEvent ==
    LET a == result'.args
        event == leads'[Len(leads')]
    IN  /\ KeepsEarlierRows(leads, leads')
        /\ event.action = "sale_closed"
        /\ event.lead_id = a.lead_id
        /\ event.vehicle_id = a.vehicle_id

\* C15: a successful record_sale(V, L, k) for a stored profile L inserts one
\* Sale row with V's price as listed_price, leaves V sold (k) or
\* archived_sold and invisible (not k), sets L's status to won and adds a
\* sale_closed event under L after L's earlier events.
C15_SaleEffects ==
    [][(IsSaleStep /\ result'.args.lead_id \in DOMAIN lead_profiles)
       => /\ SaleRowAndStatus
          /\ SaleClosedEvent
          /\ lead_profiles'[result'.args.lead_id].status = "won"]_vars

\* C15 witness: v2 was sold to the customer of profile 1 without keeping the
\* record, after that customer's lead on it.
C15_Witness ==
    /\ result.op = "record_sale"
    /\ ~result.raised
    /\ result.args.lead_id = 1
    /\ result.args.vehicle_id = "v2"
    /\ ~result.args.keep_vehicle_record
    /\ Len(sales) = 1
    /\ sales[1].listed_price = 200
    /\ Len(leads) = 2
    /\ leads[1].lead_id = 1
    /\ leads[2].action = "sale_closed"
    /\ lead_profiles[1].status = "won"
    /\ vehicles["v2"].availability_status = ARCHIVED_SOLD_STATUS

\* C16: record_sale with a non-empty lead id that matches no profile raises
\* and leaves the sales, the lead events and the vehicles as they were.
C16_UnknownLeadRejected ==
    [][(/\ result'.op = "record_sale"
        /\ result'.args.lead_id # NoLead
        /\ result'.args.lead_id \notin DOMAIN lead_profiles)
       => /\ result'.raised
          /\ sales' = sales
          /\ leads' = leads
          /\ vehicles' = vehicles]_vars

\* The status of a vehicle id is one of statuses, or the id has no row
UnknownOrIn(vehicle_id, statuses) ==
    \/ vehicle_id \notin DOMAIN vehicles
    \/ vehicles[vehicle_id].availability_status \in statuses

\* The call of the step is one the store must reject: a record_sale with an
\* unparseable sold_at, a negative sold_price or an unknown or archived
\* vehicle, or a record_lead for an unknown, sold or archived vehicle
MustBeRejected ==
    \/ /\ result'.op = "record_sale"
       /\ \/ result'.args.sold_at = NoTime
          \/ result'.args.sold_price < 0
          \/ UnknownOrIn(result'.args.vehicle_id, ARCHIVED_STATUSES)
    \/ /\ result'.op = "record_lead"
       /\ UnknownOrIn(result'.args.vehicle_id, ARCHIVED_STATUSES \cup {SOLD_STATUS})

\* C17: a record_sale or record_lead that must be rejected raises and
\* leaves vehicles (lead_count included), leads, lead_profiles, sales and
\* escalations as they were.
C17_RejectedCallsWriteNothing ==
    [][MustBeRejected => (result'.raised /\ UNCHANGED tables)]_vars

\* C17 witness: record_lead was refused for v1, which was sold after one
\* lead; its lead_count is still 1 and the tables hold the lead and the sale.
C17_Witness ==
    /\ result.op = "record_lead"
    /\ result.raised
    /\ result.args.vehicle_id = "v1"
    /\ "v1" \in DOMAIN vehicles
    /\ vehicles["v1"].availability_status = SOLD_STATUS
    /\ vehicles["v1"].lead_count = 1
    /\ Len(sales) = 1
    /\ Len(leads) = 2

\* C18: a record_lead that raises leaves no write behind: the tables a
\* later read sees are the tables before the call.
C18_RecordLeadAllOrNothing ==
    [][(result'.op = "record_lead" /\ result'.raised) => UNCHANGED tables]_vars

---------------------------------------------------------------------------
(* Properties of the escalation callbacks                                  *)

\* The lead id of the event the step inserted
StepEventLead == leads'[Len(leads')].lead_id

\* The step is a record_lead that inserted its event and crossed a threshold
\* with the escalation store attached while a registered callback raises
CallbackRaisedInStep ==
    /\ result'.op = "record_lead"
    /\ Len(leads') = Len(leads) + 1
    /\ escalation_store
    /\ CheckEscalation(result'.existing_status,
                       lead_profiles'[StepEventLead].status) # Absent
    /\ \E i \in 1..Len(callbacks) : callbacks[i] = Boom

\* C20: when a registered callback raises during a record_lead that crosses
\* a threshold, the call returns the lead id, the event and the profile's
\* score and status are stored, every registered callback was invoked, and
\* an undelivered escalation of the transition's type is stored for the
\* lead (a new row unless one was already pending).
C20_CallbackIsolation ==
    [][CallbackRaisedInStep
       => LET L == StepEventLead
              esc == CheckEscalation(result'.existing_status,
                                     lead_profiles'[L].status)
          IN  /\ ~result'.raised
              /\ result'.ret = L
              /\ leads'[Len(leads')].action = result'.args.action
              /\ lead_profiles'[L].score = ComputeLeadScore(leads', L, now)
              /\ lead_profiles'[L].status
                     = NextStatus(result'.existing_status, lead_profiles'[L].score)
              /\ result'.invoked = [i \in 1..Len(callbacks) |-> i]
              /\ HasActiveEscalation(escalations', L, esc)
              /\ ~HasActiveEscalation(escalations, L, esc)
                    => Len(escalations') = Len(escalations) + 1]_vars

\* C20 witness: a raising callback was registered before a recording one;
\* the record_lead that made the lead engaged returned its id, invoked both
\* and left the cold_to_warm escalation.
C20_Witness ==
    /\ callbacks = <<Boom, Capture>>
    /\ result.op = "record_lead"
    /\ ~result.raised
    /\ result.ret = 1
    /\ result.existing_status = "new"
    /\ result.invoked = <<1, 2>>
    /\ lead_profiles[1].status = "engaged"
    /\ Len(escalations) = 1
    /\ escalations[1].escalation_type = "cold_to_warm"

\* The step is a record_lead whose transition has an escalation type for
\* which the lead already has an undelivered escalation
RepeatsPendingTransition ==
    /\ result'.op = "record_lead"
    /\ Len(leads') = Len(leads) + 1
    /\ escalation_store
    /\ CheckEscalation(result'.existing_status,
                       lead_profiles'[StepEventLead].status) # Absent
    /\ HasActiveEscalation(escalations, StepEventLead,
                           CheckEscalation(result'.existing_status,
                                           lead_profiles'[StepEventLead].status))

EscalationTypes == {"cold_to_warm", "cold_to_hot", "warm_to_hot"}

\* mark_delivered(result'.args) of the step did what its contract says
MarkDeliveredContract ==
    LET id == result'.args
        hit == id \in DOMAIN escalations /\ escalations[id].delivered = 0
    IN  /\ result'.ret = hit
        /\ hit => /\ escalations' = [escalations EXCEPT ![id].delivered = 1]
                  /\ ~HasActiveEscalation(escalations', escalations[id].lead_id,
                                          escalations[id].escalation_type)
        /\ ~hit => escalations' = escalations
        /\ UNCHANGED <<vehicles, lead_profiles, leads, sales>>

\* C22: mark_delivered(id) returns true and sets delivered exactly when the
\* row exists and is undelivered, otherwise returns false and changes
\* nothing; no step turns delivered back to 0; and has_active_escalation
\* becomes true only when a new escalation row is saved.
C22_MarkDeliveredOneWay ==
    [][/\ (result'.op = "mark_delivered" /\ now' = now) => MarkDeliveredContract
       /\ \A i \in DOMAIN escalations :
             escalations[i].delivered = 1
                => i \in DOMAIN escalations' /\ escalations'[i].delivered = 1
       /\ \A L \in 1..MaxProfiles, T \in EscalationTypes :
             (~HasActiveEscalation(escalations, L, T)
                 /\ HasActiveEscalation(escalations', L, T))
                => Len(escalations') = Len(escalations) + 1]_vars

\* C22 witness: mark_delivered was repeated on the delivered escalation 1
\* and returned false, and a second cold_to_warm escalation of the same lead
\* has been saved since and is pending.
C22_Witness ==
    /\ result.op = "mark_delivered"
    /\ result.args = 1
    /\ ~result.ret
    /\ Len(escalations) = 2
    /\ escalations[1].delivered = 1
    /\ escalations[2].delivered = 0
    /\ escalations[2].lead_id = escalations[1].lead_id
    /\ escalations[2].escalation_type = escalations[1].escalation_type

---------------------------------------------------------------------------
(* Properties of expiry, history and archival                              *)

\* Row id of table is active (not sold, not archived) with a non-empty
\* expires_at earlier than now
Due(table, id) ==
    /\ table[id].availability_status
           \notin {SOLD_STATUS, ARCHIVED_SOLD_STATUS, ARCHIVED_REMOVED_STATUS}
    /\ table[id].expires_at # NoTime
    /\ table[id].expires_at < now

\* C23: remove_expired archives as archived_removed exactly the active
\* vehicles whose non-empty expires_at is earlier than now, returns their
\* number, leaves every other vehicle and the lead events unchanged, and
\* leaves nothing for an immediately repeated call to archive.
C23_RemoveExpired ==
    [][(result'.op = "remove_expired" /\ now' = now)
       => /\ DOMAIN vehicles' = DOMAIN vehicles
          /\ \A id \in DOMAIN vehicles :
                IF Due(vehicles, id)
                THEN vehicles'[id].availability_status = ARCHIVED_REMOVED_STATUS
                ELSE vehicles'[id] = vehicles[id]
          /\ result'.ret = Cardinality({id \in DOMAIN vehicles : Due(vehicles, id)})
          /\ leads' = leads
          /\ \A id \in DOMAIN vehicles' : ~Due(vehicles', id)]_vars

\* C23 witness: on day 8 remove_expired archived one listing of day 0 and
\* returned 1, while the other vehicle, sold and past its expiry, kept its
\* status and expiry.
C23_Witness ==
    /\ result.op = "remove_expired"
    /\ result.ret = 1
    /\ now = 8
    /\ DOMAIN vehicles = {"v1", "v2"}
    /\ vehicles["v1"].availability_status = SOLD_STATUS
    /\ vehicles["v1"].expires_at = 7
    /\ vehicles["v2"].availability_status = ARCHIVED_REMOVED_STATUS
    /\ vehicles["v2"].ingested_at = 0

---------------------------------------------------------------------------
(* Properties of the reservation holds                                     *)

\* The active reservations of a vehicle whose hold ends after the current time
FutureHolds(vehicle_id) ==
    {i \in DOMAIN reservations :
        /\ reservations[i].vehicle_id = vehicle_id
        /\ reservations[i].status = "active"
        /\ reservations[i].hold_until > now}

\* Each vehicle has at most one active reservation that ends in the future
SingleActiveHold ==
    \A vehicle_id \in VehicleIds : Cardinality(FutureHolds(vehicle_id)) <= 1

\* Thread t returns from reserve_vehicle in the step
ReturnsFromReserve(t) ==
    /\ pc[t] \in {"rv_scan", "rv_append"}
    /\ pc'[t] = "idle"

\* The holds of the vehicle that thread t's call counts as running: active,
\* ending after the time the call read when it started
HeldForCall(t) ==
    ActiveHolds(reservations, frame[t].args.vehicle_id, frame[t].now_iso)

\* C24: under every interleaving of reserve_vehicle calls each vehicle has
\* at most one active reservation whose hold_until is in the future; a call
\* that finds an active hold of its vehicle ending after the call's time
\* returns that hold's data with status already_reserved and appends
\* nothing; a call that finds none, the earlier holds having expired,
\* appends and returns its own active reservation.
C24_SingleActiveHold ==
    [][/\ SingleActiveHold'
       /\ \A t \in Threads :
             ReturnsFromReserve(t)
                => /\ HeldForCall(t) # {}
                      => /\ reservations' = reservations
                         /\ \E i \in HeldForCall(t) :
                               result'.ret = [reservations[i] EXCEPT
                                                 !.status = "already_reserved"]
                   /\ HeldForCall(t) = {}
                      => /\ result'.ret.status = "active"
                         /\ result'.ret.vehicle_id = frame[t].args.vehicle_id
                         /\ reservations' = Append(reservations, result'.ret)]_vars

\* C24 witness: v1's first hold has expired, a second hold was created
\* after it and is running, and the last call found it and was turned away.
C24_Witness ==
    /\ Len(reservations) = 2
    /\ reservations[1].vehicle_id = "v1"
    /\ reservations[2].vehicle_id = "v1"
    /\ reservations[1].status = "active"
    /\ reservations[1].hold_until > reservations[1].created_at
    /\ reservations[2].created_at >= reservations[1].hold_until
    /\ reservations[2].hold_until > now
    /\ result.op = "reserve_vehicle"
    /\ result.ret.status = "already_reserved"
    /\ result.ret.hold_until = reservations[2].hold_until

---------------------------------------------------------------------------
(* Properties of the profile merge and of the score                        *)

\* The identity columns of a lead profile
IdentityColumns == {"customer_id", "session_id", "customer_name", "customer_contact"}

\* A record_lead step that resolved to a profile stored before the call
ResolvesExistingProfile ==
    /\ result'.op = "record_lead"
    /\ Len(leads') = Len(leads) + 1
    /\ result'.ret \in DOMAIN lead_profiles

\* C25: when record_lead resolves to an existing profile, every identity
\* column of that profile that is already non-empty keeps its stored value.
C25_MergeNeverOverwrites ==
    [][ResolvesExistingProfile
          => \A column \in IdentityColumns :
                lead_profiles[result'.ret][column] # ""
                   => lead_profiles'[result'.ret][column]
                         = lead_profiles[result'.ret][column]]_vars

\* A record_lead step on a profile whose status was new before the update
RecordLeadOnNew ==
    /\ result'.op = "record_lead"
    /\ ~result'.raised
    /\ Len(leads') = Len(leads) + 1
    /\ result'.existing_status = "new"

\* C26: no record_lead call moves a profile from new to qualified and no
\* cold_to_hot escalation is ever stored: a profile in status new has a
\* stored score below 10, and the score recomputed by a call on such a
\* profile stays below 22.
C26_NoColdToHotJump ==
    [][/\ \A i \in DOMAIN escalations' :
             escalations'[i].escalation_type # "cold_to_hot"
       /\ \A p \in DOMAIN lead_profiles' :
             lead_profiles'[p].status = "new"
                => lead_profiles'[p].score < EngagedThreshold * ScoreScale
       /\ RecordLeadOnNew
             => /\ lead_profiles'[result'.ret].status # "qualified"
                /\ lead_profiles'[result'.ret].score
                      < QualifiedThreshold * ScoreScale]_vars

\* C26 witness: a stored score of 9 (new) and a deposit of 10 on top of it:
\* the call leaves the profile engaged with 19 and a cold_to_warm escalation.
C26_Witness ==
    /\ result.op = "record_lead"
    /\ ~result.raised
    /\ result.existing_status = "new"
    /\ result.args.action = "purchase_deposit"
    /\ lead_profiles[result.ret].status = "engaged"
    /\ lead_profiles[result.ret].score = 19 * ScoreScale
    /\ \E i \in DOMAIN escalations :
          /\ escalations[i].lead_id = result.ret
          /\ escalations[i].escalation_type = "cold_to_warm"

---------------------------------------------------------------------------
(* Properties of history, re-sale, lead_count and archival                 *)

\* Every row of the append-only table `before` is still in `after`, as it was
StillHolds(before, after) ==
    /\ Len(after) >= Len(before)
    /\ SubSeq(after, 1, Len(before)) = before

\* In the next state every lead id that record_lead returned, the lead id of
\* an event other than record_sale's sale_closed, resolves to a detail
LeadsStayResolvable ==
    \A i \in DOMAIN leads' :
       leads'[i].action # "sale_closed"
          => GetLeadDetail(lead_profiles', leads', leads'[i].lead_id, now') # {}

\* C27 as stated: no operation deletes or rewrites a lead event, a lead
\* profile or a sale row, no vehicle row is deleted, and every lead id
\* stays resolvable by get_lead_detail.
C27_HistoryNeverRewritten ==
    [][/\ StillHolds(leads, leads')
       /\ StillHolds(sales, sales')
       /\ \A p \in DOMAIN lead_profiles :
             p \in DOMAIN lead_profiles' /\ lead_profiles'[p] = lead_profiles[p]
       /\ DOMAIN vehicles \subseteq DOMAIN vehicles'
       /\ LeadsStayResolvable]_vars

\* C27 amended: lead events and sale rows are never deleted or rewritten,
\* a lead profile is never deleted and keeps its first_seen_at (record_lead
\* and record_sale update its other columns), no vehicle row is deleted, and
\* every lead id stays resolvable by get_lead_detail.
C27_HistoryNeverDeleted ==
    [][/\ StillHolds(leads, leads')
       /\ StillHolds(sales, sales')
       /\ \A p \in DOMAIN lead_profiles :
             /\ p \in DOMAIN lead_profiles'
             /\ lead_profiles'[p].first_seen_at = lead_profiles[p].first_seen_at
       /\ DOMAIN vehicles \subseteq DOMAIN vehicles'
       /\ LeadsStayResolvable]_vars

\* C27 witness: the vehicle of a lead and a sale was listed again and has
\* then expired; the lead's profile and events are still there.
C27_Witness ==
    /\ result.op = "remove_expired"
    /\ result.ret = 1
    /\ vehicles["v1"].availability_status = ARCHIVED_REMOVED_STATUS
    /\ Len(sales) >= 1
    /\ \E i \in DOMAIN leads : leads[i].action = "financed" /\ leads[i].lead_id = 1
    /\ GetLeadDetail(lead_profiles, leads, 1, now) # {}

\* A record_sale call with a parseable sold_at and a non-negative price
WellFormedSaleCall ==
    /\ result'.op = "record_sale"
    /\ now' = now
    /\ result'.args.sold_at # NoTime
    /\ result'.args.sold_price >= 0

\* The vehicle row exists and is not archived
Sellable(table, vehicle_id) ==
    /\ vehicle_id \in DOMAIN table
    /\ table[vehicle_id].availability_status \notin ARCHIVED_STATUSES

\* C28: a well-formed record_sale succeeds exactly when the vehicle row
\* exists and is not archived, a sold vehicle included; each success adds one
\* Sale row and one sale_closed event, a failure writes nothing; after a
\* sale that keeps the record the vehicle can be sold again, after one that
\* does not it cannot.
C28_ResaleOfKeptVehicle ==
    [][WellFormedSaleCall
          => LET a == result'.args
             IN  /\ ~result'.raised <=> Sellable(vehicles, a.vehicle_id)
                 /\ ~result'.raised
                       => /\ KeepsEarlierRows(sales, sales')
                          /\ sales'[Len(sales')].vehicle_id = a.vehicle_id
                          /\ KeepsEarlierRows(leads, leads')
                          /\ leads'[Len(leads')].action = "sale_closed"
                          /\ leads'[Len(leads')].vehicle_id = a.vehicle_id
                          /\ Sellable(vehicles', a.vehicle_id) <=> a.keep_vehicle_record
                 /\ result'.raised => UNCHANGED tables]_vars

\* C28 witness: v1 was sold twice with no upsert in between (it still has
\* the ingested_at from before the first sale), and each sale left a Sale
\* row and a sale_closed event.
C28_Witness ==
    /\ result.op = "record_sale"
    /\ ~result.raised
    /\ Len(sales) = 2
    /\ sales[1].vehicle_id = "v1"
    /\ sales[2].vehicle_id = "v1"
    /\ vehicles["v1"].ingested_at < sales[1].recorded_at
    /\ vehicles["v1"].availability_status = SOLD_STATUS
    /\ Cardinality({i \in DOMAIN leads : leads[i].action = "sale_closed"}) = 2

\* The lead_count _vehicle_to_row stores for a payload
PayloadLeadCount(vehicle) ==
    IF vehicle.lead_count = NoValue THEN 0 ELSE vehicle.lead_count

\* The step is a call of one of the operations named
IsCallOf(ops) ==
    /\ result'.op \in ops
    /\ now' = now

\* C29: a successful record_lead on V raises V.lead_count by exactly one and
\* a failed one leaves the vehicles alone; remove, remove_expired and
\* record_sale keep every lead_count; upsert and upsert_many store the
\* payload's lead_count, 0 when it has none, over the stored counter.
C29_LeadCountBookkeeping ==
    [][/\ (IsCallOf({"record_lead"}) /\ ~result'.raised /\ leads' # leads)
             => LET v == result'.args.vehicle_id
                IN  /\ v \in DOMAIN vehicles
                    /\ vehicles' = [vehicles EXCEPT ![v].lead_count = @ + 1]
       /\ (IsCallOf({"record_lead"}) /\ result'.raised) => vehicles' = vehicles
       /\ IsCallOf({"remove", "remove_expired", "record_sale"})
             => /\ DOMAIN vehicles' = DOMAIN vehicles
                /\ \A id \in DOMAIN vehicles :
                      vehicles'[id].lead_count = vehicles[id].lead_count
       /\ IsCallOf({"upsert"})
             => vehicles'[result'.args.id].lead_count = PayloadLeadCount(result'.args)
       /\ (IsCallOf({"upsert_many"}) /\ ~result'.raised)
             => \A i \in DOMAIN result'.args :
                   vehicles'[result'.args[i].vehicle.id].lead_count
                      = PayloadLeadCount(result'.args[i].vehicle)]_vars

\* C29 witness: two leads were recorded on v1 and an upsert without a
\* lead_count has put the counter back to 0.
C29_Witness ==
    /\ result.op = "upsert"
    /\ result.args.id = "v1"
    /\ result.args.lead_count = NoValue
    /\ vehicles["v1"].lead_count = 0
    /\ Cardinality({i \in DOMAIN leads :
                       leads[i].vehicle_id = "v1" /\ leads[i].action = "financed"}) = 2

\* The vehicles whose status is archived_removed or archived_sold
Archived(table) ==
    {id \in DOMAIN table : table[id].availability_status \in ARCHIVED_STATUSES}

\* An archived vehicle stays as it is on every call but an upsert of its
\* id: remove and remove_expired leave its row alone, record_lead and
\* record_sale on it raise and write nothing
ArchivedStaysArchived(id) ==
    /\ IsCallOf({"remove", "remove_expired"}) => vehicles'[id] = vehicles[id]
    /\ (IsCallOf({"record_lead", "record_sale"}) /\ result'.args.vehicle_id = id)
          => /\ result'.raised
             /\ UNCHANGED tables
    /\ ~IsCallOf({"upsert", "upsert_many"})
          => vehicles'[id].availability_status = vehicles[id].availability_status

\* The status an upsert of the payload stores
PayloadStatus(vehicle) ==
    IF vehicle.availability_status = Absent THEN "in_stock"
    ELSE vehicle.availability_status

\* The vehicle is returned by an unfiltered customer search
InSearch(table, id) ==
    \E r \in Range(Search(table, [price_max |-> NoValue, price_min |-> NoValue],
                          FALSE)) : r.id = id

\* C30 as stated: an archived vehicle stays archived under remove,
\* remove_expired, record_lead and record_sale, and an upsert of its id
\* stores the payload's status (in_stock when absent) and makes it visible
\* to get, search and count again.
C30_UpsertMakesVisibleAgain ==
    [][\A id \in Archived(vehicles) :
          /\ ArchivedStaysArchived(id)
          /\ (IsCallOf({"upsert"}) /\ result'.args.id = id)
                => /\ vehicles'[id].availability_status = PayloadStatus(result'.args)
                   /\ Get(vehicles', id) # {}
                   /\ InSearch(vehicles', id)
                   /\ Count(vehicles') = Count(vehicles) + 1]_vars

\* C30 amended: an archived vehicle stays archived under remove,
\* remove_expired, record_lead and record_sale, and an upsert of its id
\* stores the payload's status (in_stock when absent); get returns the
\* vehicle again unless that status is archived, search and count include
\* it again unless that status is sold or archived.
C30_ArchivalUndoneOnlyByUpsert ==
    [][\A id \in Archived(vehicles) :
          /\ ArchivedStaysArchived(id)
          /\ (IsCallOf({"upsert"}) /\ result'.args.id = id)
                => LET status == PayloadStatus(result'.args)
                       hidden == status \in ARCHIVED_STATUSES \cup {SOLD_STATUS}
                   IN  /\ vehicles'[id].availability_status = status
                       /\ Get(vehicles', id) # {} <=> status \notin ARCHIVED_STATUSES
                       /\ InSearch(vehicles', id) <=> ~hidden
                       /\ Count(vehicles')
                             = Count(vehicles) + (IF hidden THEN 0 ELSE 1)]_vars

\* C30 witness: v1 is archived after a lead on it, and the last call, a
\* record_lead on it, was turned away.
C30_Witness ==
    /\ "v1" \in Archived(vehicles)
    /\ result.op = "record_lead"
    /\ result.raised
    /\ result.args.vehicle_id = "v1"
    /\ \E i \in DOMAIN leads : leads[i].vehicle_id = "v1" /\ leads[i].action = "financed"
    /\ Get(vehicles, "v1") = {}
    /\ Count(vehicles) = 0

====
